---- MODULE Spec2Model ----
(***************************************************************************)
(* Model of the statistical engine of the wildfire property dashboard     *)
(* backend (src/website/backend): count aggregation, empirical-Bayes      *)
(* alpha estimation and surprisal scoring as run by the scoring           *)
(* endpoints of routes.py.                                                *)
(*                                                                        *)
(* Numbers that the code holds as floats are held here as exact           *)
(* rationals <<numerator, denominator>> (denominator > 0, lowest terms).  *)
(* surprisal = -ln(prob) is a strictly decreasing function of prob, so a  *)
(* row's surprisal is represented by its prob: a larger surprisal is a    *)
(* smaller prob.  The hex aggregator and the divergence engine are        *)
(* modelled as the functions of utils.py and routes.py they are, each     *)
(* under a specification of its own that draws the function's inputs.     *)
(***************************************************************************)
EXTENDS Integers, Sequences, FiniteSets, TLC

VARIABLES df, neighbors_df, morans_i_df, ca_counties_geojson, request, response, work

vars == <<df, neighbors_df, morans_i_df, ca_counties_geojson, request, response, work>>

----------------------------------------------------------------------------
(* Bounds of the model *)

\* largest number of rows of the loaded dataset
MaxRecords == 4

\* largest min_support a request carries
MaxMinSupport == 2

\* largest number of rows counted in a count table handed to the alpha
\* estimator on its own; one (context, target) cell holds at most half of them
MaxCounted == 7

\* largest number of rows of one target value outside that count table
MaxExtra == 1

\* largest number of scored rows counted by the cells of a leaf list handed
\* to the hex aggregator
MaxHexCount == 4

\* largest number of observations of a distribution list handed to the
\* divergence function
MaxJsdCount == 5

\* largest number of rows of a color that occurs in no compared county
MaxOtherRows == 1

\* largest count of a color in a count table that is merged
MaxMergeCount == 2

\* largest number of merge groups
MaxGroups == 2

----------------------------------------------------------------------------
(* Exact rational arithmetic standing for the code's double arithmetic *)

Abs(x) == IF x < 0 THEN -x ELSE x

RECURSIVE GCD(_, _)
GCD(a, b) == IF b = 0 THEN a ELSE GCD(b, a % b)

Rat(n, d) ==
    LET g == GCD(Abs(n), Abs(d))
        s == IF d < 0 THEN -1 ELSE 1
    IN  <<(s * n) \div g, (s * d) \div g>>

RInt(n) == <<n, 1>>

\* sums and products cancel common factors before they multiply, and
\* comparisons go by integer parts, so that no intermediate value is larger
\* than the operands and the result call for
RAdd(a, b) ==
    LET g == GCD(a[2], b[2])
    IN  Rat(a[1] * (b[2] \div g) + b[1] * (a[2] \div g), (a[2] \div g) * b[2])

RNeg(a) == <<-a[1], a[2]>>
RSub(a, b) == RAdd(a, RNeg(b))

RMul(a, b) ==
    LET g1 == GCD(Abs(a[1]), b[2])
        g2 == GCD(Abs(b[1]), a[2])
        h1 == IF g1 = 0 THEN 1 ELSE g1
        h2 == IF g2 = 0 THEN 1 ELSE g2
    IN  Rat((a[1] \div h1) * (b[1] \div h2), (a[2] \div h2) * (b[2] \div h1))

RDiv(a, b) ==
    IF b[1] = 0 THEN <<a[1], 0>>
    ELSE IF b[1] < 0 THEN RMul(a, <<-b[2], -b[1]>>)
    ELSE RMul(a, <<b[2], b[1]>>)

RECURSIVE RLess(_, _)
RLess(a, b) ==
    LET qa == a[1] \div a[2]
        qb == b[1] \div b[2]
        ra == a[1] % a[2]
        rb == b[1] % b[2]
    IN  IF qa # qb THEN qa < qb
        ELSE IF rb = 0 THEN FALSE
        ELSE IF ra = 0 THEN TRUE
        ELSE RLess(<<b[2], rb>>, <<a[2], ra>>)

RLeq(a, b) == a = b \/ RLess(a, b)
RZero == RInt(0)
ROne == RInt(1)

RECURSIVE SetToSeq(_)
SetToSeq(S) ==
    IF S = {} THEN <<>>
    ELSE LET x == CHOOSE y \in S : TRUE
         IN  <<x>> \o SetToSeq(S \ {x})

RECURSIVE RSum(_)
RSum(s) == IF s = <<>> THEN RZero ELSE RAdd(Head(s), RSum(Tail(s)))

Range(s) == {s[i] : i \in DOMAIN s}

Min(S) == CHOOSE x \in S : \A y \in S : x <= y

Max(S) == CHOOSE x \in S : \A y \in S : y <= x

----------------------------------------------------------------------------
(* constants.py *)

COLUMN_META ==
    [clr       |-> [as_target |-> "yes", as_context |-> "no"],
     bldgtype  |-> [as_target |-> "yes", as_context |-> "yes"],
     st_damcat |-> [as_target |-> "yes", as_context |-> "yes"],
     lc_type   |-> [as_target |-> "no",  as_context |-> "yes"],
     fips      |-> [as_target |-> "no",  as_context |-> "yes"]]

\* constants.py COUNTY_NAME_TO_FIPS, for the counties of the model
COUNTY_NAME_TO_FIPS ==
    [Alameda |-> <<0, 6, 0, 0, 1>>, Alpine |-> <<0, 6, 0, 0, 3>>]

\* constants.py FIPS_TO_COUNTY_NAME, for the counties of the model; a key is
\* a string of five digits
FIPS_TO_COUNTY_NAME ==
    [f \in { <<0, 6, 0, 0, 1>>, <<0, 6, 0, 0, 3>> } |->
        IF f = <<0, 6, 0, 0, 1>> THEN "Alameda" ELSE "Alpine"]

----------------------------------------------------------------------------
(* data.py: the dataset read once from the CSV.  A missing CSV field is a *)
(* null.  fips is read as an integer column, every other column as text.  *)

NULL == "<null>"

IntCols == {"fips"}

IsNull(col, v) == col \notin IntCols /\ v = NULL

ClrValues == {"Red", "Blue"}

\* the (county, land cover) pairs that occur; each lies in one spatial cell
CountyLandCover ==
    { [fips |-> 6001, lc_type |-> "Forest", h3 |-> "cell_a"],
      [fips |-> 6001, lc_type |-> "Grass",  h3 |-> "cell_b"],
      [fips |-> 6003, lc_type |-> "Forest", h3 |-> "cell_c"] }

\* the rows that occur: every pair with every colour, and a row whose
\* colour field is missing
RecordUniverse ==
    { [h3 |-> p.h3, fips |-> p.fips, lc_type |-> p.lc_type, clr |-> c,
       bldgtype |-> "M", st_damcat |-> "RES"] :
        p \in CountyLandCover, c \in ClrValues }
    \cup
    { [h3 |-> "cell_a", fips |-> 6001, lc_type |-> "Forest", clr |-> NULL,
       bldgtype |-> "M", st_damcat |-> "RES"] }

UniverseSeq == SetToSeq(RecordUniverse)

\* the datasets considered: every non-empty multiset of at most MaxRecords
\* rows of the universe, in one row order
Datasets ==
    { [i \in DOMAIN idx |-> UniverseSeq[idx[i]]] :
        idx \in { s \in UNION { [1..n -> 1..Len(UniverseSeq)] : n \in 1..MaxRecords } :
                    \A i \in DOMAIN s : \A j \in DOMAIN s : i < j => s[i] <= s[j] } }

\* the adjacency table read once from its CSV: a pair of adjacent counties
\* is listed from both sides
CountyNeighbors ==
    << [county_fips |-> 6001, neighbor_fips |-> 6003],
       [county_fips |-> 6003, neighbor_fips |-> 6001] >>

\* Python's None, for a name that holds a table and for one that holds a
\* document; a value that is not None carries is_none FALSE
NoneFrame == [is_none |-> TRUE, rows |-> <<>>]

Frame(rows) == [is_none |-> FALSE, rows |-> rows]

NoneDocument == [is_none |-> TRUE, features |-> <<>>]

\* morans_i_df: the table of local Moran's I scores (fips, local) read in a
\* try block; None when reading it raised.  A missing score is a null.
MoransTables ==
    { NoneFrame,
      Frame(<<>>),
      Frame(<< [fips |-> 6001, local |-> <<1, 2>>],
               [fips |-> 6003, local |-> <<0, 0>>] >>) }

\* the documents the county geometry URL can answer with: a feature
\* collection whose features carry a name, one of them of a county that
\* COUNTY_NAME_TO_FIPS does not list, or a feature without a name
CA_COUNTIES_GEOJSON_URL ==
    { [is_none |-> FALSE,
       features |->
         << [properties |-> [name |-> "Alameda"], geometry |-> "polygon_alameda"],
            [properties |-> [name |-> "Alpine"],  geometry |-> "polygon_alpine"],
            [properties |-> [name |-> "Nowhere"], geometry |-> "polygon_nowhere"] >>],
      [is_none |-> FALSE,
       features |->
         << [properties |-> [name |-> "Alameda"], geometry |-> "polygon_alameda"],
            [properties |-> [cartodb_id |-> "1"], geometry |-> "polygon_unnamed"] >>] }

\* dict.get(key, default)
Get(d, key, default) == IF key \in DOMAIN d THEN d[key] ELSE default

\* {**d, **new}, and d[key] = value for every key of new: a dict with the
\* entries of new over those of d
Updated(d, new) ==
    [k \in DOMAIN d \cup DOMAIN new |-> IF k \in DOMAIN new THEN new[k] ELSE d[k]]

\* main.py lifespan: every feature of the fetched document is given a
\* county_name property, the name it carries or ""
WithCountyNames(doc) ==
    [is_none |-> FALSE,
     features |->
       [i \in DOMAIN doc.features |->
          [properties |-> Updated(doc.features[i].properties,
                                  [county_name |-> Get(doc.features[i].properties,
                                                       "name", "")]),
           geometry |-> doc.features[i].geometry]]]

\* ca_counties_geojson is a name of two modules: data.py defines it as None,
\* and routes.py copies the value data.py holds when routes.py is imported
\* (from data import ... ca_counties_geojson), which is before startup
AtImport == [data |-> NoneDocument, routes |-> NoneDocument]

\* the state of the two names once startup has fetched the first document
AfterStartup ==
    [data |-> WithCountyNames(CHOOSE doc \in CA_COUNTIES_GEOJSON_URL :
                                 Len(doc.features) = 3),
     routes |-> NoneDocument]

\* the table of scores as loaded
MoransLoaded == CHOOSE t \in MoransTables : ~t.is_none /\ Len(t.rows) = 2

----------------------------------------------------------------------------
(* polars operations used by the handlers *)

Key(r, cols) == [i \in 1..Len(cols) |-> r[cols[i]]]

NullInKey(key, cols) == \E i \in 1..Len(cols) : IsNull(cols[i], key[i])

\* df.group_by(cols).agg(pl.len()): one row per distinct key, a null is a
\* key value like any other
GroupByLen(d, cols) ==
    LET keys == [i \in DOMAIN d |-> Key(d[i], cols)]
    IN  { [key |-> k, len |-> Cardinality({ j \in DOMAIN d : keys[j] = k })] :
            k \in Range(keys) }

\* a.join(b, on=cols): inner join, a null key matches nothing
JoinMatch(ka, kb, cols) == ka = kb /\ ~NullInKey(ka, cols)

----------------------------------------------------------------------------
(* Count Aggregator: the three group_by tables every scoring handler      *)
(* builds (routes.py 57-62, 111-116, 206-211, 308-313)                    *)

RECURSIVE ISum(_)
ISum(s) == IF s = <<>> THEN 0 ELSE Head(s) + ISum(Tail(s))

\* d.group_by(context_cols + [target]).agg(pl.len().alias("count"))
CountTable(d, context_cols, target) ==
    { [ctx |-> SubSeq(g.key, 1, Len(context_cols)),
       tgt |-> g.key[Len(context_cols) + 1],
       count |-> g.len] : g \in GroupByLen(d, context_cols \o <<target>>) }

\* the distinct rows of a context counted instead of its rows
ContextTotalTableDistinct(d, context_cols) ==
    { [ctx |-> g.key,
       context_total |-> Cardinality({ d[j] : j \in { i \in DOMAIN d :
                                          Key(d[i], context_cols) = g.key } })] :
        g \in GroupByLen(d, context_cols) }

\* d.group_by(context_cols).agg(pl.len().alias("context_total"))
ContextTotalTable(d, context_cols) ==
    { [ctx |-> g.key, context_total |-> g.len] : g \in GroupByLen(d, context_cols) }

\* d.group_by(target).agg(pl.len()) with p_global = global_count / sum
GlobalPriorTable(d, target) ==
    LET gc == GroupByLen(d, <<target>>)
        gs == SetToSeq(gc)
        total == ISum([i \in DOMAIN gs |-> gs[i].len])
    IN  { [tgt |-> g.key[1], global_count |-> g.len,
           p_global |-> Rat(g.len, total)] : g \in gc }

\* counts.join(context_totals, on=context_cols)
\*       .join(global_prior.select(target, "p_global"), on=target)
JoinTables(counts, context_totals, global_prior, context_cols, target) ==
    { [ctx |-> x[1].ctx, tgt |-> x[1].tgt, count |-> x[1].count,
       context_total |-> x[2].context_total, p_global |-> x[3].p_global] :
        x \in { y \in counts \X context_totals \X global_prior :
                  /\ JoinMatch(y[1].ctx, y[2].ctx, context_cols)
                  /\ JoinMatch(<<y[1].tgt>>, <<y[3].tgt>>, <<target>>) } }

----------------------------------------------------------------------------
(* Alpha Estimator (utils.py estimate_alpha_eb) *)

\* a null of a float column
RNone == <<0, 0>>

\* pl.col(..).var(): sample variance (ddof = 1), null for fewer than two values
RVar(s) ==
    IF Len(s) <= 1 THEN RNone
    ELSE LET mean == RDiv(RSum(s), RInt(Len(s)))
             sq == [i \in DOMAIN s |-> RMul(RSub(s[i], mean), RSub(s[i], mean))]
         IN  RDiv(RSum(sq), RInt(Len(s) - 1))

RMean(s) == RDiv(RSum(s), RInt(Len(s)))

\* merged.group_by(target).agg([var(p_obs), first(p_global), mean(context_total)])
VarianceTable(counts, context_totals, global_prior, context_cols, target) ==
    LET merged == JoinTables(counts, context_totals, global_prior, context_cols, target)
    IN  { LET rows == SetToSeq({ m \in merged : m.tgt = k })
          IN  [tgt |-> k,
               n_ctx |-> Len(rows),
               var_obs |-> RVar([i \in DOMAIN rows |-> Rat(rows[i].count, rows[i].context_total)]),
               p_global |-> rows[1].p_global,
               mean_n |-> RMean([i \in DOMAIN rows |-> RInt(rows[i].context_total)])] :
          k \in { m.tgt : m \in merged } }

BinomialVar(st) == RDiv(RMul(st.p_global, RSub(ROne, st.p_global)), st.mean_n)

AlphaK(st) ==
    RSub(RDiv(RMul(st.p_global, RSub(ROne, st.p_global)),
              RSub(st.var_obs, BinomialVar(st))), ROne)

\* the body of the loop over the rows of the variance table: the alpha_k
\* the row appends to alphas, as a list of length 0 or 1
RetainedAlpha(st) ==
    IF st.var_obs = RNone \/ st.var_obs = RZero THEN <<>>
    ELSE IF RLess(BinomialVar(st), st.var_obs)
         THEN (IF RLess(RZero, AlphaK(st)) THEN <<AlphaK(st)>> ELSE <<>>)
         ELSE <<>>

RECURSIVE Flatten(_)
Flatten(ss) == IF ss = <<>> THEN <<>> ELSE Head(ss) \o Flatten(Tail(ss))

Alphas(counts, context_totals, global_prior, context_cols, target) ==
    LET stats == SetToSeq(VarianceTable(counts, context_totals, global_prior,
                                        context_cols, target))
    IN  Flatten([i \in DOMAIN stats |-> RetainedAlpha(stats[i])])

RECURSIVE RInsert(_, _)
RInsert(x, s) ==
    IF s = <<>> THEN <<x>>
    ELSE IF RLeq(x, Head(s)) THEN <<x>> \o s
         ELSE <<Head(s)>> \o RInsert(x, Tail(s))

RECURSIVE RSort(_)
RSort(s) == IF s = <<>> THEN <<>> ELSE RInsert(Head(s), RSort(Tail(s)))

\* the lower of the two middle values taken for a list of even length
MedianLower(s) ==
    LET t == RSort(s)
        n == Len(t)
    IN  t[(n + 1) \div 2]

\* np.median: the middle value of the sorted list, the mean of the two
\* middle values for a list of even length
Median(s) ==
    LET t == RSort(s)
        n == Len(t)
    IN  IF n % 2 = 1 THEN t[(n + 1) \div 2]
        ELSE RDiv(RAdd(t[n \div 2], t[n \div 2 + 1]), RInt(2))

\* another fallback value
DefaultAlphaTen == RInt(10)

DefaultAlpha == RInt(100)

estimate_alpha_eb(counts, context_totals, global_prior, context_cols, target) ==
    LET alphas == Alphas(counts, context_totals, global_prior, context_cols, target)
    IN  IF alphas # <<>> THEN Median(alphas) ELSE DefaultAlpha

----------------------------------------------------------------------------
(* Surprisal Scorer: the prob_table of the scoring handlers *)

\* the shrinkage weight left out of the denominator
ProbUnnormalised(count, context_total, p_global, alpha) ==
    RDiv(RAdd(RInt(count), RMul(alpha, p_global)), RInt(context_total))

Prob(count, context_total, p_global, alpha) ==
    RDiv(RAdd(RInt(count), RMul(alpha, p_global)),
         RAdd(RInt(context_total), alpha))

\* an exclusive boundary
ReliableExclusive(context_total, min_support) == context_total > min_support

Reliable(context_total, min_support) == context_total >= min_support

ProbTable(counts, context_totals, global_prior, context_cols, target, alpha, min_support) ==
    { [ctx |-> m.ctx, tgt |-> m.tgt, count |-> m.count,
       context_total |-> m.context_total, p_global |-> m.p_global,
       prob |-> Prob(m.count, m.context_total, m.p_global, alpha),
       reliable |-> Reliable(m.context_total, min_support)] :
        m \in JoinTables(counts, context_totals, global_prior, context_cols, target) }

----------------------------------------------------------------------------
(* Requests and responses *)

\* a county identifier of a request path is a string of digits
FipsStrings == { <<0, 6, 0, 0, 1>>, <<0, 0>> }

\* "h3" is a column of the dataset that is not a registered column
ContextChoices == { <<>>, <<"lc_type">>, <<"fips">>, <<"clr">>, <<"h3">> }

TargetChoices == { "clr", "lc_type", "fips", "h3" }

NoRequest ==
    [endpoint |-> "none", context_cols |-> <<>>, target |-> "",
     min_support |-> 0, fips |-> <<>>]

\* nothing computed
NoWork ==
    [stage |-> "none", context_cols |-> <<>>, counts |-> {}, context_totals |-> {},
     global_prior |-> {}, alpha |-> RNone, prob_table |-> {}]

NoResponse ==
    [status |-> 0, kind |-> "none", alpha |-> RNone, total_rows |-> 0,
     data |-> <<>>, distributions |-> {}]

\* validation against the columns of the dataset instead of the registered set
valid_cols_of_frame == DOMAIN COLUMN_META \cup {"h3"}

valid_cols == DOMAIN COLUMN_META

\* validation that also reads the roles: a target marked as_target "no" or
\* a context column marked as_context "no" is refused
InvalidColumnByRole(context_cols, target) ==
    \/ \E col \in Range(context_cols \o <<target>>) : col \notin valid_cols
    \/ COLUMN_META[target].as_target = "no"
    \/ \E col \in Range(context_cols) : COLUMN_META[col].as_context = "no"

InvalidColumn(context_cols, target) ==
    \E col \in Range(context_cols \o <<target>>) : col \notin valid_cols

----------------------------------------------------------------------------
(* The scoring computation shared, line for line, by the four handlers:   *)
(* count tables, alpha, prob_table.  d_counts is the frame the counts and *)
(* context totals are grouped from, d_prior the frame of the global prior *)

\* group_by over a list naming a column twice, or over no column, raises
\* inside polars; the exception escapes the handler
ScoringRun(d_counts, d_prior, context_cols, target, min_support) ==
    IF target \in Range(context_cols)
    THEN [NoWork EXCEPT !.stage = "raised", !.context_cols = context_cols]
    ELSE IF context_cols = <<>>
    THEN [NoWork EXCEPT !.stage = "raised", !.context_cols = context_cols,
                        !.counts = CountTable(d_counts, context_cols, target)]
    ELSE LET counts == CountTable(d_counts, context_cols, target)
             context_totals == ContextTotalTable(d_counts, context_cols)
             global_prior == GlobalPriorTable(d_prior, target)
             alpha == estimate_alpha_eb(counts, context_totals, global_prior,
                                        context_cols, target)
         IN  [stage |-> "scored", context_cols |-> context_cols,
              counts |-> counts, context_totals |-> context_totals,
              global_prior |-> global_prior, alpha |-> alpha,
              prob_table |-> ProbTable(counts, context_totals, global_prior,
                                       context_cols, target, alpha, min_support)]

----------------------------------------------------------------------------
(* The handlers of routes.py.  Each yields the status and kind of its     *)
(* outcome and the tables it computed on the way.                         *)

Rejected(status, kind) == [status |-> status, kind |-> kind, work |-> NoWork]

Completed(w) ==
    IF w.stage = "raised"
    THEN [status |-> 500, kind |-> "Exception", work |-> w]
    ELSE [status |-> 200, kind |-> "ok", work |-> w]

analyze_conditional_probability(req) ==
    IF InvalidColumn(req.context_cols, req.target)
    THEN Rejected(400, "InvalidColumn")
    ELSE IF req.target \in Range(req.context_cols)
    THEN Rejected(400, "InvalidRequest")
    ELSE IF Len(req.context_cols) = 0
    THEN Rejected(400, "InvalidRequest")
    ELSE Completed(ScoringRun(df, df, req.context_cols, req.target, req.min_support))

\* if "fips" not in context_cols: context_cols = ["fips"] + context_cols
WithFips(context_cols) ==
    IF "fips" \notin Range(context_cols) THEN <<"fips">> \o context_cols
    ELSE context_cols

get_county_map(req) ==
    LET context_cols == WithFips(req.context_cols)
    IN  IF InvalidColumn(context_cols, req.target)
        THEN Rejected(400, "InvalidColumn")
        ELSE Completed(ScoringRun(df, df, context_cols, req.target, req.min_support))

RECURSIVE LStripZero(_)
LStripZero(s) == IF s # <<>> /\ Head(s) = 0 THEN LStripZero(Tail(s)) ELSE s

RECURSIVE DigitsToInt(_)
DigitsToInt(s) ==
    IF s = <<>> THEN 0
    ELSE 10 * DigitsToInt(SubSeq(s, 1, Len(s) - 1)) + s[Len(s)]

\* int(fips.lstrip("0")) if fips.startswith("0") else int(fips);
\* int("") raises ValueError
ParseFips(fips) ==
    LET t == IF fips # <<>> /\ Head(fips) = 0 THEN LStripZero(fips) ELSE fips
    IN  IF t = <<>> THEN [ok |-> FALSE, v |-> 0]
        ELSE [ok |-> TRUE, v |-> DigitsToInt(t)]

\* df.filter(pl.col("fips") == fips_int)
CountyFrame(d, fips_int) ==
    LET InCounty(r) == r.fips = fips_int
    IN  SelectSeq(d, InCounty)

get_county_surprisal_detail(req) ==
    LET parsed == ParseFips(req.fips)
        context_cols == WithFips(req.context_cols)
        county_df == CountyFrame(df, parsed.v)
    IN  IF ~parsed.ok
        THEN Rejected(500, "ValueError")
        ELSE IF InvalidColumn(context_cols, req.target)
        THEN Rejected(400, "InvalidColumn")
        ELSE IF Len(county_df) = 0
        THEN Rejected(404, "NoData")
        ELSE Completed(ScoringRun(county_df, df, context_cols, req.target,
                                  req.min_support))

get_hex_map(req) ==
    IF InvalidColumn(req.context_cols, req.target)
    THEN Rejected(400, "InvalidColumn")
    ELSE Completed(ScoringRun(df, df, req.context_cols, req.target, req.min_support))

----------------------------------------------------------------------------
(* Results returned *)


\* str(fips_int).zfill(5)
RECURSIVE Digits(_)
Digits(n) == IF n < 10 THEN <<n>> ELSE Digits(n \div 10) \o <<n % 10>>

RECURSIVE ZFill(_, _)
ZFill(s, width) == IF Len(s) >= width THEN s ELSE ZFill(<<0>> \o s, width)

FipsStr(fips_int) == ZFill(Digits(fips_int), 5)

\* no identifier: the None that COUNTY_NAME_TO_FIPS.get answers with for a
\* name it does not list, a sequence no string of digits equals
NoFips == <<-1>>

\* the value a row has in a column of its context
ContextValue(row, context_cols, col) ==
    row.ctx[CHOOSE i \in DOMAIN context_cols : context_cols[i] = col]

\* prob_table without .filter(pl.col("reliable"))
ReliableRowsUnfiltered(prob_table) == prob_table

\* prob_table.filter(pl.col("reliable"))
ReliableRows(prob_table) == { r \in prob_table : r.reliable }

\* pl.col("surprisal").max(): the surprisal of the least prob
RowsMaxSurprisal(rows) ==
    (CHOOSE r \in rows : \A x \in rows : RLeq(r.prob, x.prob)).prob

\* pl.col("surprisal").mean(), held as the probs whose surprisals are
\* averaged, in ascending order
RowsMeanSurprisal(rows) ==
    LET s == SetToSeq(rows)
    IN  RSort([i \in DOMAIN s |-> s[i].prob])

\* the mean of no row: None
NoMean == <<>>

\* pl.col("context_total").sum()
TotalRows(rows) ==
    LET s == SetToSeq(rows)
    IN  ISum([i \in DOMAIN s |-> s[i].context_total])

\* pl.struct([target, "surprisal"]).sort_by("surprisal", descending=True)
\* .first(): the target value and surprisal of a row of largest surprisal;
\* of several such rows any can come first
TopAnomalies(rows) ==
    { [value |-> r.tgt, surprisal |-> r.prob] :
        r \in { x \in rows : \A y \in rows : RLeq(x.prob, y.prob) } }

\* county_stats of get_county_map as stats_dict, by fips_str: every table
\* the aggregation can yield
CountyStats(prob_table, context_cols) ==
    LET reliable == ReliableRows(prob_table)
        Of(f) == { r \in reliable : FipsStr(ContextValue(r, context_cols, "fips")) = f }
        keys == { FipsStr(ContextValue(r, context_cols, "fips")) : r \in reliable }
        Stats(f) == { [fips_str |-> f,
                       max_surprisal |-> RowsMaxSurprisal(Of(f)),
                       mean_surprisal |-> RowsMeanSurprisal(Of(f)),
                       total_rows |-> TotalRows(Of(f)),
                       top_anomaly |-> top] : top \in TopAnomalies(Of(f)) }
    IN  { d \in [keys -> UNION { Stats(f) : f \in keys }] :
            \A f \in keys : d[f] \in Stats(f) }

\* the loop over the features of the county geometry: props is a copy of
\* the feature's properties, written to and put into a new feature
RECURSIVE CountyFeatures(_, _)
CountyFeatures(features, stats_dict) ==
    IF features = <<>> THEN <<>>
    ELSE LET feature == Head(features)
             props == feature.properties
             fips_str == Get(COUNTY_NAME_TO_FIPS, Get(props, "name", ""), NoFips)
             written ==
                 IF fips_str # NoFips /\ fips_str \in DOMAIN stats_dict
                 THEN LET stats == stats_dict[fips_str]
                      IN  Updated(props,
                                  [fips |-> fips_str,
                                   max_surprisal |-> stats.max_surprisal,
                                   mean_surprisal |-> stats.mean_surprisal,
                                   total_rows |-> stats.total_rows,
                                   top_anomaly_value |-> stats.top_anomaly.value,
                                   top_anomaly_surprisal |-> stats.top_anomaly.surprisal])
                 ELSE Updated(props,
                              [fips |-> fips_str, max_surprisal |-> RNone,
                               mean_surprisal |-> NoMean, total_rows |-> 0])
         IN  << [properties |-> written, geometry |-> feature.geometry] >>
             \o CountyFeatures(Tail(features), stats_dict)

\* the features of the shared document after the loop, had props been the
\* feature's own properties and not a copy of them
FeaturesAfterLoopInPlace(document_features, features) ==
    [i \in DOMAIN document_features |->
       [properties |-> features[i].properties,
        geometry |-> document_features[i].geometry]]

\* the features of the shared document after the loop: props is
\* dict(feature["properties"]), so nothing written to props reaches them
FeaturesAfterLoop(document_features, features) == document_features

\* group_by(context_cols + [target]).agg(pl.col("h3").first()): the cell of
\* the first row of the group
SampleH3(d, context_cols, target, row) ==
    d[Min({ i \in DOMAIN d :
              Key(d[i], context_cols \o <<target>>) = row.ctx \o <<row.tgt>> })].h3

\* prob_table.sort("surprisal", descending=True): every order of the rows
\* in which surprisal never increases, that is prob never decreases; rows
\* come out of group_by in no fixed order, so rows of equal surprisal can
\* come in any order
RECURSIVE SortedBySurprisalDesc(_)
SortedBySurprisalDesc(rows) ==
    IF rows = {} THEN { <<>> }
    ELSE UNION { { <<r>> \o rest : rest \in SortedBySurprisalDesc(rows \ {r}) } :
                 r \in { x \in rows : \A y \in rows : RLeq(x.prob, y.prob) } }

ErrorBody(out) ==
    [status |-> out.status, kind |-> out.kind, alpha |-> RNone,
     total_rows |-> 0, data |-> <<>>, distributions |-> {}]

\* what get_county_map answers with, given the outcome of its scoring and
\* the county geometry it reads
CountyMapResponses(out, document) ==
    IF out.status # 200 THEN { ErrorBody(out) }
    ELSE { [status |-> 200, kind |-> "ok", alpha |-> out.work.alpha,
            total_rows |-> 0, data |-> <<>>, distributions |-> {},
            features |-> CountyFeatures(document.features, stats_dict)] :
             stats_dict \in CountyStats(out.work.prob_table, out.work.context_cols) }

\* surprisal 0.0, the surprisal of prob 1, and the mean 0.0
ZeroSurprisal == ROne

ZeroMean == << ROne >>

\* the entry of get_county_surprisal_detail for the rows lc_data of a land
\* cover: total_rows is context_total of the first row, whichever comes
\* first; color_distributions is held as the set of its rows
LandcoverEntries(lc, lc_data) ==
    { [lc_type |-> lc, total_rows |-> t,
       max_surprisal |-> RowsMaxSurprisal(lc_data),
       mean_surprisal |-> RowsMeanSurprisal(lc_data),
       distributions |-> lc_data] : t \in { r.context_total : r \in lc_data } }

\* by_landcover for the land covers lc_types of prob_table: unique() yields
\* them in no fixed order, and a land cover without a reliable row is skipped
RECURSIVE ByLandcover(_, _, _)
ByLandcover(prob_table, context_cols, lc_types) ==
    IF lc_types = {} THEN { <<>> }
    ELSE UNION {
           LET lc_data == { r \in ReliableRows(prob_table) :
                              ContextValue(r, context_cols, "lc_type") = lc }
               rest == ByLandcover(prob_table, context_cols, lc_types \ {lc})
           IN  IF lc_data = {} THEN rest
               ELSE { <<entry>> \o tail :
                        entry \in LandcoverEntries(lc, lc_data), tail \in rest } :
           lc \in lc_types }

\* by_landcover of a request without lc_type among its context columns: one
\* entry for the reliable rows of the county
AllLandcover(prob_table) ==
    LET county_data == ReliableRows(prob_table)
    IN  << [lc_type |-> "all",
            total_rows |-> IF county_data # {} THEN TotalRows(county_data) ELSE 0,
            max_surprisal |-> IF county_data # {} THEN RowsMaxSurprisal(county_data)
                              ELSE ZeroSurprisal,
            mean_surprisal |-> IF county_data # {} THEN RowsMeanSurprisal(county_data)
                               ELSE ZeroMean,
            distributions |-> county_data] >>

\* what get_county_surprisal_detail answers with
DetailResponses(out) ==
    IF out.status # 200 THEN { ErrorBody(out) }
    ELSE LET prob_table == out.work.prob_table
             context_cols == out.work.context_cols
             by_landcover ==
                 IF "lc_type" \in Range(context_cols)
                 THEN ByLandcover(prob_table, context_cols,
                                  { ContextValue(r, context_cols, "lc_type") :
                                      r \in prob_table })
                 ELSE { AllLandcover(prob_table) }
         IN  { [status |-> 200, kind |-> "ok", alpha |-> out.work.alpha,
                total_rows |-> 0, data |-> <<>>,
                distributions |-> ReliableRows(prob_table),
                by_landcover |-> entries] :
                 entries \in by_landcover }

\* sort(["surprisal"], descending=False): every order of the rows in which
\* prob never increases
RECURSIVE SortedBySurprisalAsc(_)
SortedBySurprisalAsc(rows) ==
    IF rows = {} THEN { <<>> }
    ELSE UNION { { <<r>> \o rest : rest \in SortedBySurprisalAsc(rows \ {r}) } :
                 r \in { x \in rows : \A y \in rows : RLeq(y.prob, x.prob) } }

\* head(3)
Head3(s) == SubSeq(s, 1, IF Len(s) < 3 THEN Len(s) ELSE 3)

\* expected_by_context: for every context with a reliable row, the first
\* three target values and probs of its rows by ascending surprisal
ExpectedByContext(prob_table) ==
    LET reliable == ReliableRows(prob_table)
        contexts == { r.ctx : r \in reliable }
        Lists(ctx) == { Head3([i \in DOMAIN s |-> <<s[i].tgt, s[i].prob>>]) :
                          s \in SortedBySurprisalAsc({ r \in reliable : r.ctx = ctx }) }
    IN  { e \in [contexts -> UNION { Lists(ctx) : ctx \in contexts }] :
            \A ctx \in contexts : e[ctx] \in Lists(ctx) }

\* f"{p*100:.0f}": the percentage rounded to an integer, a half to the even one
Percent(p) ==
    LET q == (100 * p[1]) \div p[2]
        r == (100 * p[1]) % p[2]
    IN  IF 2 * r < p[2] THEN q
        ELSE IF 2 * r > p[2] THEN q + 1
        ELSE IF q % 2 = 0 THEN q ELSE q + 1

\* expected_parts, held as the list that ", ".join writes out
Expected(pairs) == [i \in DOMAIN pairs |-> <<pairs[i][1], Percent(pairs[i][2])>>]

\* base_cols + extra_cols
SelectCols(context_cols, target) ==
    LET base_cols == <<"h3", "lc_type", "fips">>
        NotBase(c) == c \notin Range(base_cols)
    IN  base_cols \o SelectSeq(context_cols \o <<target>>, NotBase)

\* scored: the distinct rows of df over select_cols, inner-joined with the
\* reliable rows of prob_table on context_cols + [target]
Scored(d, prob_table, context_cols, target) ==
    LET select_cols == SelectCols(context_cols, target)
        h3_with_context == { [c \in Range(select_cols) |-> d[i][c]] : i \in DOMAIN d }
        on == context_cols \o <<target>>
    IN  { [h |-> x[1], p |-> x[2]] :
            x \in { y \in h3_with_context \X ReliableRows(prob_table) :
                      JoinMatch(Key(y[1], on), y[2].ctx \o <<y[2].tgt>>, on) } }

\* context_str, held as the values that concat_str joins
ContextStr(row, context_cols) ==
    LET NotFips(i) == context_cols[i] # "fips"
        kept == SelectSeq([i \in DOMAIN context_cols |-> i], NotFips)
    IN  [j \in DOMAIN kept |-> row.ctx[kept[j]]]

\* the records of hex_list a cell can get: lc_type and fips of the row that
\* comes first, the statistics of the cell's scored rows, and the top
\* anomaly, a row of largest surprisal
HexRecords(cell, scored, expected_by_context, context_cols) ==
    LET rows == { s \in scored : s.h.h3 = cell }
        seq == SetToSeq(rows)
        probs == [i \in DOMAIN seq |-> seq[i].p.prob]
        tops == { x \in rows : \A y \in rows : RLeq(x.p.prob, y.p.prob) }
    IN  { [h3 |-> cell,
           count |-> Cardinality(rows),
           lc_type |-> first.h.lc_type,
           fips |-> FipsStr(first.h.fips),
           max_surprisal |-> RSort(probs)[1],
           mean_surprisal |-> RSort(probs),
           anomaly_value |-> top.p.tgt,
           anomaly_prob |-> top.p.prob,
           anomaly_context |-> ContextStr(top.p, context_cols),
           expected |-> Expected(expected_by_context[top.p.ctx])] :
            first \in rows, top \in tops }

\* hex_list, held as the set of its records: group_by("h3") yields the
\* cells in no fixed order
HexLists(d, prob_table, context_cols, target) ==
    LET scored == Scored(d, prob_table, context_cols, target)
        cells == { s.h.h3 : s \in scored }
    IN  UNION {
          LET Records(cell) == HexRecords(cell, scored, expected_by_context, context_cols)
          IN  { { rec[cell] : cell \in cells } :
                  rec \in { f \in [cells -> UNION { Records(cell) : cell \in cells }] :
                              \A cell \in cells : f[cell] \in Records(cell) } } :
          expected_by_context \in ExpectedByContext(prob_table) }

\* what get_hex_map answers with; the levels of by_resolution are built
\* from hex_list by aggregate_hexes_to_resolution
HexMapResponses(out, d, target) ==
    IF out.status # 200 THEN { ErrorBody(out) }
    ELSE { [status |-> 200, kind |-> "ok", alpha |-> out.work.alpha,
            total_rows |-> Cardinality(hex_list), data |-> <<>>,
            distributions |-> {}, hex_list |-> hex_list] :
             hex_list \in HexLists(d, out.work.prob_table,
                                   out.work.context_cols, target) }

MakeRequest(endpoint, context_cols, target, min_support, fips) ==
    [endpoint |-> endpoint, context_cols |-> context_cols, target |-> target,
     min_support |-> min_support, fips |-> fips]

----------------------------------------------------------------------------
(* The state machine: the tables are loaded at import and the county      *)
(* geometry at startup, then requests are served one at a time           *)

Init ==
    /\ df \in Datasets
    /\ neighbors_df = CountyNeighbors
    /\ morans_i_df = MoransLoaded
    /\ ca_counties_geojson = AfterStartup
    /\ request = NoRequest
    /\ response = NoResponse
    /\ work = NoWork

AnalyzeConditionalProbability ==
    /\ response = NoResponse
    /\ \E cc \in ContextChoices, t \in TargetChoices, ms \in 1..MaxMinSupport :
         \E req \in { MakeRequest("analyze", cc, t, ms, <<>>) } :
         \E out \in { analyze_conditional_probability(req) } :
         \E rows \in { { [ctx |-> r.ctx, tgt |-> r.tgt, count |-> r.count,
                          context_total |-> r.context_total,
                          p_global |-> r.p_global, prob |-> r.prob,
                          reliable |-> r.reliable,
                          sample_h3 |-> SampleH3(df, cc, t, r)] :
                         r \in out.work.prob_table } } :
             /\ request' = req
             /\ work' = out.work
             /\ IF out.status # 200
                THEN response' = ErrorBody(out)
                ELSE \E data \in SortedBySurprisalDesc(rows) :
                       response' = [status |-> 200, kind |-> "ok",
                                    alpha |-> out.work.alpha,
                                    total_rows |-> Len(data),
                                    data |-> data, distributions |-> {}]
    /\ UNCHANGED <<df, neighbors_df, morans_i_df, ca_counties_geojson>>

GetCountyMap ==
    /\ ~ca_counties_geojson.data.is_none
    /\ response = NoResponse
    /\ \E cc \in ContextChoices, t \in TargetChoices, ms \in 1..MaxMinSupport :
         \E req \in { MakeRequest("county_map", cc, t, ms, <<>>) } :
         \E out \in { get_county_map(req) } :
             /\ request' = req
             /\ work' = out.work
             /\ \E body \in CountyMapResponses(out, ca_counties_geojson.data) :
                  /\ response' = body
                  /\ ca_counties_geojson' =
                       IF body.status # 200 THEN ca_counties_geojson
                       ELSE [ca_counties_geojson EXCEPT !.data.features =
                                FeaturesAfterLoop(@, body.features)]
    /\ UNCHANGED <<df, neighbors_df, morans_i_df>>

GetCountySurprisalDetail ==
    /\ response = NoResponse
    /\ \E cc \in ContextChoices, t \in TargetChoices, ms \in 1..MaxMinSupport,
          f \in FipsStrings :
         \E req \in { MakeRequest("county_detail", cc, t, ms, f) } :
         \E out \in { get_county_surprisal_detail(req) } :
             /\ request' = req
             /\ work' = out.work
             /\ \E body \in DetailResponses(out) : response' = body
    /\ UNCHANGED <<df, neighbors_df, morans_i_df, ca_counties_geojson>>

GetHexMap ==
    /\ response = NoResponse
    /\ \E cc \in ContextChoices, t \in TargetChoices, ms \in 1..MaxMinSupport :
         \E req \in { MakeRequest("hex_map", cc, t, ms, <<>>) } :
         \E out \in { get_hex_map(req) } :
             /\ request' = req
             /\ work' = out.work
             /\ \E body \in HexMapResponses(out, df, t) : response' = body
    /\ UNCHANGED <<df, neighbors_df, morans_i_df, ca_counties_geojson>>

\* the response is sent; the tables of the request are discarded
Return ==
    /\ response # NoResponse
    /\ request' = NoRequest
    /\ response' = NoResponse
    /\ work' = NoWork
    /\ UNCHANGED <<df, neighbors_df, morans_i_df, ca_counties_geojson>>

Next ==
    \/ AnalyzeConditionalProbability
    \/ GetCountyMap
    \/ GetCountySurprisalDetail
    \/ GetHexMap
    \/ Return

Spec == Init /\ [][Next]_vars

----------------------------------------------------------------------------
(* Startup (main.py lifespan) and the handlers that read the county       *)
(* geometry, from the import of the modules on                            *)

\* props.get("fips") or props.get("FIPS"), and for neither
\* COUNTY_NAME_TO_FIPS.get(props.get("name") or props.get("county_name", ""))
FipsOfProperties(props) ==
    LET fips == Get(props, "fips", <<>>)
        FIPS == Get(props, "FIPS", <<>>)
        name == Get(props, "name", "")
        county_name == IF name # "" THEN name ELSE Get(props, "county_name", "")
    IN  IF fips # <<>> /\ fips # NoFips THEN fips
        ELSE IF FIPS # <<>> /\ FIPS # NoFips THEN FIPS
        ELSE Get(COUNTY_NAME_TO_FIPS, county_name, NoFips)

\* morans_lookup: the score of every row that has one, by the county's
\* identifier as a string; a later row of a county replaces an earlier one
MoransLookup(rows) ==
    LET HasLocal(row) == row.local # RNone
        scored == SelectSeq(rows, HasLocal)
    IN  [k \in { FipsStr(scored[i].fips) : i \in DOMAIN scored } |->
           scored[Max({ i \in DOMAIN scored : FipsStr(scored[i].fips) = k })].local]

\* the loop over the features: a feature for every county that has a score
RECURSIVE MoransFeatures(_, _)
MoransFeatures(features, morans_lookup) ==
    IF features = <<>> THEN <<>>
    ELSE LET feature == Head(features)
             props == feature.properties
             fips_str == FipsOfProperties(props)
             rest == MoransFeatures(Tail(features), morans_lookup)
         IN  IF fips_str \in DOMAIN morans_lookup
             THEN << [properties |->
                        Updated(props,
                                [fips |-> fips_str,
                                 county_name |-> Get(FIPS_TO_COUNTY_NAME, fips_str,
                                                    Get(props, "name", fips_str)),
                                 local |-> morans_lookup[fips_str]]),
                      geometry |-> feature.geometry] >> \o rest
             ELSE rest

MoransError(detail) ==
    [status |-> 500, kind |-> detail, alpha |-> RNone, total_rows |-> 0,
     data |-> <<>>, distributions |-> {}]

\* the handler reads the names morans_i_df and ca_counties_geojson of its
\* own module; the statistics of the answer are computed from the local
\* scores of its features
get_morans_i_map(morans, geojson) ==
    IF morans.is_none THEN MoransError("Moran's I data not loaded")
    ELSE IF geojson.is_none THEN MoransError("County geometries not loaded")
    ELSE LET morans_lookup == MoransLookup(morans.rows)
             features == MoransFeatures(geojson.features, morans_lookup)
         IN  IF DOMAIN morans_lookup = {}
             THEN MoransError("No valid Moran's I data found")
             ELSE IF features = <<>>
             THEN MoransError("No matching counties found")
             ELSE [status |-> 200, kind |-> "ok", alpha |-> RNone,
                   total_rows |-> 0, data |-> <<>>, distributions |-> {},
                   features |-> features]

\* largest number of rows of the dataset of a server followed from import
MaxServerRecords == 2

InitServer ==
    /\ df \in { d \in Datasets : Len(d) <= MaxServerRecords }
    /\ neighbors_df = CountyNeighbors
    /\ morans_i_df \in MoransTables
    /\ ca_counties_geojson = AtImport
    /\ request = NoRequest
    /\ response = NoResponse
    /\ work = NoWork

\* the document is fetched and bound to the name of data.py, then every
\* feature is given its county_name; requests are served after that
Lifespan ==
    /\ ca_counties_geojson.data.is_none
    /\ \E doc \in CA_COUNTIES_GEOJSON_URL :
         ca_counties_geojson' =
             [ca_counties_geojson EXCEPT !.data = WithCountyNames(doc)]
    /\ UNCHANGED <<df, neighbors_df, morans_i_df, request, response, work>>

GetMoransIMap ==
    /\ ~ca_counties_geojson.data.is_none
    /\ response = NoResponse
    /\ request' = MakeRequest("morans_i_map", <<>>, "", 0, <<>>)
    /\ response' = get_morans_i_map(morans_i_df, ca_counties_geojson.routes)
    /\ work' = NoWork
    /\ UNCHANGED <<df, neighbors_df, morans_i_df, ca_counties_geojson>>

NextServer ==
    \/ Lifespan
    \/ GetCountyMap
    \/ GetMoransIMap
    \/ Return

SpecServer == InitServer /\ [][NextServer]_vars

----------------------------------------------------------------------------
(* The alpha estimator on its own: estimate_alpha_eb applied to the count *)
(* tables of a dataset with contexts EbContexts and target values         *)
(* EbTargets.  The tables are those the handlers build: a count row for   *)
(* every combination that occurs, the context totals of the same rows,    *)
(* and the global prior of a frame that holds these rows and, as for the  *)
(* county detail handler, rows of other contexts (extra).                 *)

EbContexts == {"Forest", "Grass", "Water"}
EbTargets == {"Red", "Blue"}
EbContextCols == <<"lc_type">>
EbTarget == "clr"

EbSum(f, S) == LET q == SetToSeq(S) IN ISum([i \in DOMAIN q |-> f[q[i]]])

EbTables(m, extra) ==
    LET ctx_total(c) == EbSum([t \in EbTargets |-> m[c, t]], EbTargets)
        global_count(t) == EbSum([c \in EbContexts |-> m[c, t]], EbContexts) + extra[t]
        total == EbSum([t \in EbTargets |-> global_count(t)], EbTargets)
    IN  [stage |-> "tables", context_cols |-> EbContextCols,
         counts |-> { [ctx |-> <<c>>, tgt |-> t, count |-> m[c, t]] :
                        <<c, t>> \in { x \in EbContexts \X EbTargets : m[x[1], x[2]] > 0 } },
         context_totals |-> { [ctx |-> <<c>>, context_total |-> ctx_total(c)] :
                                c \in { x \in EbContexts : ctx_total(x) > 0 } },
         global_prior |-> { [tgt |-> t, global_count |-> global_count(t),
                             p_global |-> Rat(global_count(t), total)] :
                              t \in { x \in EbTargets : global_count(x) > 0 } },
         alpha |-> RNone, prob_table |-> {}]

InitAlpha ==
    /\ df = <<>>
    /\ neighbors_df = <<>>
    /\ morans_i_df = NoneFrame
    /\ ca_counties_geojson = AtImport
    /\ request = NoRequest
    /\ response = NoResponse
    /\ \E m \in { x \in [EbContexts \X EbTargets -> 0..(MaxCounted \div 2)] :
                      EbSum(x, EbContexts \X EbTargets) <= MaxCounted },
          extra \in [EbTargets -> 0..MaxExtra] :
         work = EbTables(m, extra)

EstimateAlphaEb ==
    /\ work.stage = "tables"
    /\ work' = [work EXCEPT !.stage = "alpha",
                            !.alpha = estimate_alpha_eb(work.counts, work.context_totals,
                                                        work.global_prior,
                                                        EbContextCols, EbTarget)]
    /\ UNCHANGED <<df, neighbors_df, morans_i_df, ca_counties_geojson, request, response>>

NextAlpha == EstimateAlphaEb

SpecAlpha == InitAlpha /\ [][NextAlpha]_vars

----------------------------------------------------------------------------
(* The order of column values: Python and polars order text values        *)
(* lexicographically and integer values numerically                       *)

\* the text values of the model in lexicographic order
StrOrder == <<"Blue", "Forest", "Grass", "Green", "M", "RES", "Red", "Warm">>

StrRank(v) == CHOOSE i \in DOMAIN StrOrder : StrOrder[i] = v

ValueLeq(col, a, b) ==
    IF col \in IntCols THEN a <= b ELSE StrRank(a) <= StrRank(b)

----------------------------------------------------------------------------
(* Hex Aggregator (utils.py aggregate_hexes_to_resolution) *)

\* a key a dict does not hold
ABSENT == "<absent>"

\* constants.py H3_LEVELS: the "res" of each level, in list order
H3_LEVELS == <<5, 6, 7, 8, 9>>

\* the leaf cells (resolution 9) and their ancestors: h3.cell_to_parent is
\* a tree, cell_a and cell_b share their ancestor from resolution 8 up,
\* cell_c joins them from resolution 7 up
LeafCells == {"cell_a", "cell_b", "cell_c"}

cell_to_parent(h, res) ==
    IF res = 8 THEN (IF h \in {"cell_a", "cell_b"} THEN "r8_ab" ELSE "r8_c")
    ELSE IF res = 7 THEN "r7_abc"
    ELSE IF res = 6 THEN "r6_abc"
    ELSE "r5_abc"

\* the keys of a dict filled in the order of s: each key at its first
\* occurrence
RECURSIVE DictKeys(_)
DictKeys(s) ==
    IF s = <<>> THEN <<>>
    ELSE LET front == DictKeys(SubSeq(s, 1, Len(s) - 1))
             last == s[Len(s)]
         IN  IF last \in Range(front) THEN front ELSE Append(front, last)

\* the greatest element of a non-empty list of numbers
RECURSIVE RMaxOf(_)
RMaxOf(s) ==
    IF Len(s) = 1 THEN s[1]
    ELSE LET m == RMaxOf(Tail(s))
         IN  IF RLess(Head(s), m) THEN m ELSE Head(s)

\* the number of children counted instead of their counts
TotalCountLen(children) == Len(children)

\* sum(c.get("count", 1) for c in children); the leaves get_hex_map builds
\* all carry a count
TotalCount(children) == ISum([i \in DOMAIN children |-> children[i].count])

HasScore(c) == c.max_surprisal # RNone

\* the scores of all children, a null score taken as 0
ScoresNullAsZero(children) ==
    [i \in DOMAIN children |->
        IF HasScore(children[i]) THEN children[i].max_surprisal ELSE RZero]

\* [c["max_surprisal"] for c in children if c.get("max_surprisal") is not None]
Scores(children) ==
    LET scored == SelectSeq(children, HasScore)
    IN  [i \in DOMAIN scored |-> scored[i].max_surprisal]

\* max(scores) if scores else None
MaxSurprisal(scores) == IF scores # <<>> THEN RMaxOf(scores) ELSE RNone

\* the mean weighted by the children's counts
MeanSurprisalWeighted(children) ==
    LET scored == SelectSeq(children, HasScore)
    IN  IF scored = <<>> THEN RNone
        ELSE RDiv(RSum([i \in DOMAIN scored |->
                          RMul(RInt(scored[i].count), scored[i].max_surprisal)]),
                  RInt(TotalCount(scored)))

\* sum(scores) / len(scores) if scores else None
MeanSurprisal(children) ==
    LET scores == Scores(children)
    IN  IF scores # <<>> THEN RDiv(RSum(scores), RInt(Len(scores))) ELSE RNone

\* the first child that has a score, whatever the score
TopChildFirstScored(children) ==
    LET scored == SelectSeq(children, HasScore)
    IN  IF scored = <<>> THEN <<>> ELSE <<scored[1]>>

\* max([c for c in children if scored], key=max_surprisal, default=None):
\* the first child of the highest score, as a list of length 0 or 1
TopChild(children) ==
    LET scored == SelectSeq(children, HasScore)
    IN  IF scored = <<>> THEN <<>>
        ELSE LET m == RMaxOf(Scores(children))
                 i == CHOOSE k \in DOMAIN scored :
                        /\ scored[k].max_surprisal = m
                        /\ \A j \in DOMAIN scored :
                              scored[j].max_surprisal = m => k <= j
             IN  <<scored[i]>>

\* counts[val] of get_dominant: the counts of the children carrying val
DominantWeight(children, key, val) ==
    LET Carries(c) == c[key] = val
    IN  TotalCount(SelectSeq(children, Carries))

\* the value carried by most children, whatever their counts
GetDominantByFrequency(children, key) ==
    LET Truthy(c) == c[key] # NULL
        keys == DictKeys([i \in DOMAIN SelectSeq(children, Truthy) |->
                             SelectSeq(children, Truthy)[i][key]])
        Freq(val) == LET Carries(c) == c[key] = val
                     IN  Len(SelectSeq(children, Carries))
    IN  IF keys = <<>> THEN NULL
        ELSE keys[CHOOSE k \in DOMAIN keys :
                    /\ \A j \in DOMAIN keys : Freq(keys[j]) <= Freq(keys[k])
                    /\ \A j \in DOMAIN keys :
                          Freq(keys[j]) = Freq(keys[k]) => k <= j]

\* get_dominant(key): max(counts.keys(), key=lambda k: counts[k]), the first
\* key of the greatest weight in the order the dict was filled
GetDominant(children, key) ==
    LET Truthy(c) == c[key] # NULL
        keys == DictKeys([i \in DOMAIN SelectSeq(children, Truthy) |->
                             SelectSeq(children, Truthy)[i][key]])
        W(val) == DominantWeight(children, key, val)
    IN  IF keys = <<>> THEN NULL
        ELSE keys[CHOOSE k \in DOMAIN keys :
                    /\ \A j \in DOMAIN keys : W(keys[j]) <= W(keys[k])
                    /\ \A j \in DOMAIN keys : W(keys[j]) = W(keys[k]) => k <= j]

\* the record of one parent group
ParentRecord(parent_h3, children) ==
    LET top_child == TopChild(children)
        Payload(field) == IF top_child # <<>> THEN top_child[1][field] ELSE ABSENT
    IN  [h3 |-> parent_h3,
         count |-> TotalCount(children),
         lc_type |-> GetDominant(children, "lc_type"),
         fips |-> GetDominant(children, "fips"),
         max_surprisal |-> MaxSurprisal(Scores(children)),
         mean_surprisal |-> MeanSurprisal(children),
         anomaly_value |-> Payload("anomaly_value"),
         anomaly_prob |-> Payload("anomaly_prob"),
         anomaly_context |-> Payload("anomaly_context"),
         expected |-> Payload("expected")]

\* groups[parent]: the children of a parent in the order of hex_data
Children(hex_data, target_res, parent_h3) ==
    LET InGroup(hx) == cell_to_parent(hx.h3, target_res) = parent_h3
    IN  SelectSeq(hex_data, InGroup)

aggregate_hexes_to_resolution(hex_data, target_res) ==
    IF target_res >= 9 THEN hex_data
    ELSE LET parents == DictKeys([i \in DOMAIN hex_data |->
                                     cell_to_parent(hex_data[i].h3, target_res)])
         IN  [g \in DOMAIN parents |->
                 ParentRecord(parents[g], Children(hex_data, target_res, parents[g]))]

----------------------------------------------------------------------------
(* The level loop of get_hex_map (routes.py 396-405) on its own: the leaf *)
(* list hex_list, one record per cell in the order group_by("h3") yields, *)
(* is aggregated to every level of H3_LEVELS in turn                      *)

\* the (lc_type, fips) a leaf carries; fips is the zero-filled text
LeafProfiles ==
    { [lc_type |-> "Forest", fips |-> "06001"],
      [lc_type |-> "Grass",  fips |-> "06003"],
      [lc_type |-> NULL,     fips |-> NULL] }

\* the max_surprisal a leaf carries
LeafScores == { RNone, RInt(1), RInt(2) }

\* the top anomaly of a leaf, different for every cell
LeafPayload(h) ==
    IF h = "cell_a"
    THEN [anomaly_value |-> "Red", anomaly_prob |-> Rat(1, 4),
          anomaly_context |-> "Forest", expected |-> "Blue (75%)"]
    ELSE IF h = "cell_b"
    THEN [anomaly_value |-> "Blue", anomaly_prob |-> Rat(1, 5),
          anomaly_context |-> "Grass", expected |-> "Red (80%)"]
    ELSE [anomaly_value |-> "Green", anomaly_prob |-> Rat(1, 10),
          anomaly_context |-> "", expected |-> "Red (90%)"]

\* a record of hex_records; the mean of a leaf is below its max
Leaf(h, count, profile, score) ==
    [h3 |-> h, count |-> count,
     lc_type |-> profile.lc_type, fips |-> profile.fips,
     max_surprisal |-> score,
     mean_surprisal |-> IF score = RNone THEN RNone ELSE RDiv(score, RInt(2)),
     anomaly_value |-> LeafPayload(h).anomaly_value,
     anomaly_prob |-> LeafPayload(h).anomaly_prob,
     anomaly_context |-> LeafPayload(h).anomaly_context,
     expected |-> LeafPayload(h).expected]

\* the orders in which n distinct cells can come
CellOrders(n) ==
    { c \in [1..n -> LeafCells] : \A i \in 1..n : \A j \in 1..n : c[i] = c[j] => i = j }

\* the counts of n cells: MaxHexCount scored rows at most over all cells
CellCounts(n) == { c \in [1..n -> 1..MaxHexCount] : ISum(c) <= MaxHexCount }

\* the leaf lists considered: distinct cells in any order
InitHex ==
    /\ df = <<>>
    /\ neighbors_df = <<>>
    /\ morans_i_df = NoneFrame
    /\ ca_counties_geojson = AtImport
    /\ request = NoRequest
    /\ response = NoResponse
    /\ \E n \in 1..Cardinality(LeafCells) :
       \E cells \in CellOrders(n), counts \in CellCounts(n),
          attrs \in [1..n -> LeafProfiles \X LeafScores] :
         work = [stage |-> "leaves",
                 hex_list |-> [i \in 1..n |-> Leaf(cells[i], counts[i],
                                                   attrs[i][1], attrs[i][2])],
                 by_resolution |-> <<>>]

\* geojson_by_res after the first k passes of "for level in H3_LEVELS":
\* every pass aggregates hex_list
RECURSIVE LevelLoop(_, _)
LevelLoop(hex_list, k) ==
    IF k = 0 THEN <<>>
    ELSE LET before == LevelLoop(hex_list, k - 1)
             res == H3_LEVELS[k]
             agg_data == IF res = 9 THEN hex_list
                         ELSE aggregate_hexes_to_resolution(hex_list, res)
         IN  [r \in DOMAIN before \cup {res} |->
                 IF r = res THEN agg_data ELSE before[r]]

\* the loop over H3_LEVELS and the return of
\* {"by_resolution": .., "total_hexes": len(hex_list), ..}
BuildHexLevels ==
    /\ work.stage = "leaves"
    /\ \E by_resolution \in { LevelLoop(work.hex_list, Len(H3_LEVELS)) } :
         work' = [work EXCEPT !.stage = "returned",
                              !.by_resolution = by_resolution]
    /\ response' = [NoResponse EXCEPT !.status = 200, !.kind = "ok",
                                      !.total_rows = Len(work.hex_list)]
    /\ UNCHANGED <<df, neighbors_df, morans_i_df, ca_counties_geojson, request>>

NextHex == BuildHexLevels

SpecHex == InitHex /\ [][NextHex]_vars

----------------------------------------------------------------------------
(* Divergence Engine: compute_jsd_from_distributions (routes.py) *)

\* the pseudo-count of compute_jsd_from_distributions
LAPLACE == 1

\* sorted(values) for text values; a single value is compared with nothing
RECURSIVE SortedValues(_)
SortedValues(S) ==
    IF S = {} THEN <<>>
    ELSE IF Cardinality(S) = 1 THEN << CHOOSE v \in S : TRUE >>
    ELSE LET m == CHOOSE v \in S : \A w \in S : StrRank(v) <= StrRank(w)
         IN  <<m>> \o SortedValues(S \ {m})

\* set(d["value"] for d in dist)
ValueSet(dist) == { dist[i].value : i \in DOMAIN dist }

\* {d["value"]: d["count"] for d in dist}: the last entry of a value stays
CountDict(dist) ==
    [v \in ValueSet(dist) |->
        dist[CHOOSE i \in DOMAIN dist :
               /\ dist[i].value = v
               /\ \A j \in DOMAIN dist : dist[j].value = v => j <= i].count]

\* a default of 1 for a value the dict lacks
DictGetDefaultOne(counts, v) == IF v \in DOMAIN counts THEN counts[v] ELSE 1

\* counts.get(v, 0)
DictGet(counts, v) == IF v \in DOMAIN counts THEN counts[v] ELSE 0

\* [counts.get(v, 0) + LAPLACE for v in sorted(all_values)]
SmoothedVector(counts, values) ==
    [i \in DOMAIN values |-> DictGet(counts, values[i]) + LAPLACE]

\* vec /= vec.sum()
Normalised(vec) == [i \in DOMAIN vec |-> Rat(vec[i], ISum(vec))]

\* A sum of terms c * ln(r), every term a pair <<r, c>> of rationals, in
\* the form that tells such sums apart: one pair for every r # 1 that
\* occurs, with the sum of its coefficients.  Two sums of the same form are
\* the same number; the empty form is 0.
LogSum(terms) ==
    LET kept == { i \in DOMAIN terms :
                    terms[i][2] # RZero /\ terms[i][1] # ROne }
        Coef(r) == LET idx == SetToSeq({ i \in kept : terms[i][1] = r })
                   IN  RSum([k \in DOMAIN idx |-> terms[idx[k]][2]])
    IN  { <<r, Coef(r)>> : r \in { terms[i][1] : i \in kept } }

\* rel_entr(x, y) = x * ln(x / y), and 0 for x = 0
RelEntr(x, y) == IF x = RZero THEN <<ROne, RZero>> ELSE <<RDiv(x, y), x>>

\* the divergence of p from the mean of p and q alone
KullbackLeiblerToMean(p, q) ==
    LET m == [i \in DOMAIN p |-> RDiv(RAdd(p[i], q[i]), RInt(2))]
    IN  LogSum([i \in DOMAIN p |-> RelEntr(p[i], m[i])])

\* scipy.spatial.distance.jensenshannon(p, q), natural logarithm:
\* sqrt((sum(rel_entr(p, m)) + sum(rel_entr(q, m))) / 2) with m = (p + q) / 2.
\* The value is held as the sum under the root.
jensenshannon(p, q) ==
    LET m == [i \in DOMAIN p |-> RDiv(RAdd(p[i], q[i]), RInt(2))]
    IN  LogSum([i \in DOMAIN p |-> RelEntr(p[i], m[i])]
               \o [i \in DOMAIN q |-> RelEntr(q[i], m[i])])

\* the divergence 0
JsdZero == {}

\* the local values of compute_jsd_from_distributions
JsdVectors(dist_a, dist_b) ==
    LET all_values == ValueSet(dist_a) \cup ValueSet(dist_b)
        counts_a == CountDict(dist_a)
        counts_b == CountDict(dist_b)
    IN  [all_values |-> SortedValues(all_values),
         vec_a |-> SmoothedVector(counts_a, SortedValues(all_values)),
         vec_b |-> SmoothedVector(counts_b, SortedValues(all_values))]

compute_jsd_from_distributions(dist_a, dist_b) ==
    LET v == JsdVectors(dist_a, dist_b)
    IN  jensenshannon(Normalised(v.vec_a), Normalised(v.vec_b))

----------------------------------------------------------------------------
(* compute_jsd_from_distributions on its own, applied to two distribution *)
(* lists of {"value", "count"} entries                                    *)

\* the category values of the lists
JsdValues == {"Blue", "Green", "Red"}

\* a distribution list over the values S with the counts c
DistList(S, c) ==
    LET values == SortedValues(S)
    IN  [i \in DOMAIN values |-> [value |-> values[i], count |-> c[values[i]]]]

\* the counts of a list over S: MaxJsdCount observations at most, a listed
\* value may have none
DistCounts(S) ==
    { c \in [S -> 0..MaxJsdCount] :
        ISum([i \in DOMAIN SortedValues(S) |-> c[SortedValues(S)[i]]]) <= MaxJsdCount }

InitJsd ==
    /\ df = <<>>
    /\ neighbors_df = <<>>
    /\ morans_i_df = NoneFrame
    /\ ca_counties_geojson = AtImport
    /\ request = NoRequest
    /\ response = NoResponse
    /\ \E Sa \in SUBSET JsdValues, Sb \in SUBSET JsdValues :
       \E ca \in DistCounts(Sa), cb \in DistCounts(Sb) :
         work = [stage |-> "called",
                 dist_a |-> DistList(Sa, ca), dist_b |-> DistList(Sb, cb),
                 all_values |-> <<>>, vec_a |-> <<>>, vec_b |-> <<>>,
                 jsd |-> JsdZero]

ComputeJsdFromDistributions ==
    /\ work.stage = "called"
    /\ \E v \in { JsdVectors(work.dist_a, work.dist_b) } :
         work' = [work EXCEPT
                    !.stage = "returned",
                    !.all_values = v.all_values,
                    !.vec_a = v.vec_a,
                    !.vec_b = v.vec_b,
                    !.jsd = compute_jsd_from_distributions(work.dist_a, work.dist_b)]
    /\ UNCHANGED <<df, neighbors_df, morans_i_df, ca_counties_geojson, request, response>>

NextJsd == ComputeJsdFromDistributions

SpecJsd == InitJsd /\ [][NextJsd]_vars

----------------------------------------------------------------------------
(* Divergence Engine: get_neighbor_divergence_map (routes.py) *)

\* the constants of get_neighbor_divergence_map
LAPLACE_PSEUDOCOUNT == 1

MIN_SUPPORT == 30

\* neighbors.filter(fips_a < fips_b), one (fips_a, fips_b) for every row kept
adjacency_list(neighbors) ==
    LET Ascending(row) == row.county_fips < row.neighbor_fips
        kept == SelectSeq(neighbors, Ascending)
    IN  [i \in DOMAIN kept |-> <<kept[i].county_fips, kept[i].neighbor_fips>>]

\* d[col].unique().sort().to_list() for a text column
UniqueSorted(d, col) == SortedValues({ d[i][col] : i \in DOMAIN d })

\* d.group_by(["fips", "lc_type", "clr"]).len()
county_lc_clr_counts(d) == GroupByLen(d, <<"fips", "lc_type", "clr">>)

\* support_dict.get((fips, lc), 0): the rows of a county in a land cover
Support(counts, fips_val, lc_type_val) ==
    LET rows == SetToSeq({ g \in counts :
                    g.key[1] = fips_val /\ g.key[2] = lc_type_val })
    IN  ISum([i \in DOMAIN rows |-> rows[i].len])

\* color_counts of get_color_distribution: the colors of one county in one
\* land cover with their counts
ColorCounts(counts, fips_val, lc_type_val) ==
    LET subset == { g \in counts : g.key[1] = fips_val /\ g.key[2] = lc_type_val }
    IN  [c \in { g.key[3] : g \in subset } |->
            (CHOOSE g \in subset : g.key[3] = c).len]

\* all_colors = df["clr"].unique().sort().to_list(): the colors of the
\* whole dataset, whichever pair and land cover is compared
ColorsCompared(d, counts, fips_a, fips_b, lc) == UniqueSorted(d, "clr")

\* the smoothed vector of get_color_distribution, before it is normalized
ColorVector(counts, fips_val, lc_type_val, colors) ==
    [i \in DOMAIN colors |->
        DictGet(ColorCounts(counts, fips_val, lc_type_val), colors[i])
          + LAPLACE_PSEUDOCOUNT]

\* sum(v * w for v, w in zip(values, weights)) for divergences v: one pair
\* <<v, w>> for every divergence that occurs, with the sum of its weights
WeightedSum(values, weights) ==
    LET Weight(v) == LET idx == SetToSeq({ i \in DOMAIN values : values[i] = v })
                     IN  RSum([k \in DOMAIN idx |-> weights[idx[k]]])
    IN  { <<v, Weight(v)>> : v \in Range(values) }

\* a stratum kept only when both supports are above MIN_SUPPORT
StratumAboveThreshold(d, counts, fips_a, fips_b, lc) ==
    LET support_a == Support(counts, fips_a, lc)
        support_b == Support(counts, fips_b, lc)
        colors == ColorsCompared(d, counts, fips_a, fips_b, lc)
        vec_a == ColorVector(counts, fips_a, lc, colors)
        vec_b == ColorVector(counts, fips_b, lc, colors)
    IN  IF support_a <= MIN_SUPPORT \/ support_b <= MIN_SUPPORT THEN <<>>
        ELSE << [lc |-> lc, support_a |-> support_a, support_b |-> support_b,
                 colors |-> colors, vec_a |-> vec_a, vec_b |-> vec_b,
                 jsd |-> jensenshannon(Normalised(vec_a), Normalised(vec_b)),
                 support |-> IF support_a < support_b THEN support_a
                             ELSE support_b] >>

\* one pass of "for lc in all_lc_types": the stratum appended to pair_jsds
\* and pair_supports, as a list of length 0 or 1
Stratum(d, counts, fips_a, fips_b, lc) ==
    LET support_a == Support(counts, fips_a, lc)
        support_b == Support(counts, fips_b, lc)
        colors == ColorsCompared(d, counts, fips_a, fips_b, lc)
        vec_a == ColorVector(counts, fips_a, lc, colors)
        vec_b == ColorVector(counts, fips_b, lc, colors)
    IN  IF support_a < MIN_SUPPORT \/ support_b < MIN_SUPPORT THEN <<>>
        ELSE << [lc |-> lc, support_a |-> support_a, support_b |-> support_b,
                 colors |-> colors, vec_a |-> vec_a, vec_b |-> vec_b,
                 jsd |-> jensenshannon(Normalised(vec_a), Normalised(vec_b)),
                 support |-> IF support_a < support_b THEN support_a
                             ELSE support_b] >>

\* one pass of "for fips_a, fips_b in adjacency_list": the entry appended
\* to results, as a list of length 0 or 1
PairResult(d, counts, fips_a, fips_b) ==
    LET all_lc_types == UniqueSorted(d, "lc_type")
        strata == Flatten([i \in DOMAIN all_lc_types |->
                              Stratum(d, counts, fips_a, fips_b, all_lc_types[i])])
        pair_jsds == [i \in DOMAIN strata |-> strata[i].jsd]
        pair_supports == [i \in DOMAIN strata |-> strata[i].support]
        total_support == ISum(pair_supports)
    IN  IF strata = <<>> THEN <<>>
        ELSE << [fips_a |-> fips_a, fips_b |-> fips_b, strata |-> strata,
                 weighted_jsd |->
                    WeightedSum(pair_jsds,
                                [i \in DOMAIN strata |->
                                    Rat(pair_supports[i], total_support)]),
                 mean_jsd |->
                    WeightedSum(pair_jsds,
                                [i \in DOMAIN strata |-> Rat(1, Len(strata))]),
                 n_shared_lc |-> Len(strata),
                 total_support |-> total_support] >>

\* results of get_neighbor_divergence_map
DivergenceResults(d, neighbors) ==
    LET pairs == adjacency_list(neighbors)
        counts == county_lc_clr_counts(d)
    IN  Flatten([i \in DOMAIN pairs |->
                    PairResult(d, counts, pairs[i][1], pairs[i][2])])

----------------------------------------------------------------------------
(* get_neighbor_divergence_map on its own, on datasets large enough for   *)
(* a land cover to reach MIN_SUPPORT in a county                          *)

\* n times the row r
RECURSIVE Repeat(_, _)
Repeat(r, n) == IF n = 0 THEN <<>> ELSE <<r>> \o Repeat(r, n - 1)

\* the (Red, Blue) rows a county has in one land cover: none, just below
\* and at MIN_SUPPORT in one color, the same in two colors, at MIN_SUPPORT
\* in the other color, and just above MIN_SUPPORT
StratumProfiles ==
    { <<0, 0>>, <<MIN_SUPPORT - 1, 0>>, <<MIN_SUPPORT, 0>>,
      <<MIN_SUPPORT - 2, 1>>, <<MIN_SUPPORT - 1, 1>>, <<0, MIN_SUPPORT>>,
      <<MIN_SUPPORT, 1>> }

\* the counties compared and their land covers
DivStrata == <<<<6001, "Forest">>, <<6001, "Grass">>, <<6003, "Forest">>, <<6003, "Grass">>>>

DivRow(fips, lc, clr) ==
    [h3 |-> "cell_a", fips |-> fips, lc_type |-> lc, clr |-> clr,
     bldgtype |-> "M", st_damcat |-> "RES"]

\* the dataset with profile[k] rows in the k-th stratum and other Green
\* rows in a third county
DivDataset(profile, other) ==
    Flatten([k \in DOMAIN DivStrata |->
                Repeat(DivRow(DivStrata[k][1], DivStrata[k][2], "Red"), profile[k][1])
                \o Repeat(DivRow(DivStrata[k][1], DivStrata[k][2], "Blue"), profile[k][2])])
    \o Repeat(DivRow(6005, "Forest", "Green"), other)

\* the adjacency tables considered: the adjacency of the two counties
\* listed from both sides, from either side alone, and twice from one side
NeighborTables ==
    { CountyNeighbors,
      << [county_fips |-> 6001, neighbor_fips |-> 6003] >>,
      << [county_fips |-> 6003, neighbor_fips |-> 6001] >>,
      << [county_fips |-> 6001, neighbor_fips |-> 6003],
         [county_fips |-> 6001, neighbor_fips |-> 6003] >> }

InitDivergence ==
    /\ \E profile \in [DOMAIN DivStrata -> StratumProfiles], other \in 0..MaxOtherRows :
         df = DivDataset(profile, other)
    /\ neighbors_df \in NeighborTables
    /\ morans_i_df = NoneFrame
    /\ ca_counties_geojson = AtImport
    /\ request = NoRequest
    /\ response = NoResponse
    /\ work = [stage |-> "none", results |-> <<>>]

GetNeighborDivergenceMap ==
    /\ work.stage = "none"
    /\ df # <<>>
    /\ \E results \in { DivergenceResults(df, neighbors_df) } :
         /\ work' = [stage |-> "returned", results |-> results]
         /\ response' = [NoResponse EXCEPT !.status = 200, !.kind = "ok",
                                           !.total_rows = Len(results)]
    /\ UNCHANGED <<df, neighbors_df, morans_i_df, ca_counties_geojson, request>>

NextDivergence == GetNeighborDivergenceMap

SpecDivergence == InitDivergence /\ [][NextDivergence]_vars

----------------------------------------------------------------------------
(* The size of a divergence: jensenshannon takes natural logarithms and   *)
(* the square root of half their sum.  Logarithms are bracketed in fixed  *)
(* point, in units of 1 / LnUnit, every step rounded outwards.            *)

LnUnit == 10000

\* 0.6931 < ln 2 < 0.6932
Ln2Lower == 6931

Ln2Upper == 6932

\* a / b rounded up, for b > 0
CeilDiv(a, b) == -((-a) \div b)

\* the greatest k with d * 2^k <= n, for n >= d > 0
RECURSIVE Halvings(_, _)
Halvings(n, d) == IF 2 * d <= n THEN 1 + Halvings(n, 2 * d) ELSE 0

\* <<lo, hi>> with lo <= LnUnit * ln(n / d) <= hi, for n >= d > 0:
\* n / d = 2^k * t with 1 <= t < 2 and ln t = 2 * atanh(z), z = (t-1)/(t+1),
\* 2z + 2z^3/3 <= 2 * atanh(z) <= 2z + (3/4) * z^3 for 0 <= z < 1/3
LnBounds(n, d) ==
    LET k == Halvings(n, d)
        dd == d * (2 ^ k)
        zl == (LnUnit * (n - dd)) \div (n + dd)
        zu == CeilDiv(LnUnit * (n - dd), n + dd)
        cube_l == (((zl * zl) \div LnUnit) * zl) \div LnUnit
        cube_u == CeilDiv(CeilDiv(zu * zu, LnUnit) * zu, LnUnit)
    IN  << k * Ln2Lower + 2 * zl + (2 * cube_l) \div 3,
           k * Ln2Upper + 2 * zu + CeilDiv(3 * cube_u, 4) >>

\* LnUnit * ln(r) from below and from above, for a rational r > 0
LnLower(r) == IF r[1] >= r[2] THEN LnBounds(r[1], r[2])[1]
              ELSE -(LnBounds(r[2], r[1])[2])

LnUpper(r) == IF r[1] >= r[2] THEN LnBounds(r[1], r[2])[2]
              ELSE -(LnBounds(r[2], r[1])[1])

\* LnUnit * sum(c * ln(r)) of a divergence from below and from above
LogSumLower(form) ==
    LET terms == SetToSeq(form)
    IN  ISum([i \in DOMAIN terms |->
                LET r == terms[i][1]
                    c == terms[i][2]
                IN  (c[1] * (IF c[1] >= 0 THEN LnLower(r) ELSE LnUpper(r)))
                      \div c[2]])

LogSumUpper(form) ==
    LET terms == SetToSeq(form)
    IN  ISum([i \in DOMAIN terms |->
                LET r == terms[i][1]
                    c == terms[i][2]
                IN  CeilDiv(c[1] * (IF c[1] >= 0 THEN LnUpper(r) ELSE LnLower(r)),
                            c[2])])

\* sqrt(sum / 2) > ln 2, shown by sum > 2 * (ln 2)^2
AboveLn2(form) == LogSumLower(form) > CeilDiv(2 * Ln2Upper * Ln2Upper, LnUnit)

\* sqrt(sum / 2) is not a number in [0, ..): the sum under the root is negative
BelowZero(form) == LogSumUpper(form) < 0

----------------------------------------------------------------------------
(* Category merging (utils.py apply_color_mapping)                        *)

\* sum(counts[k] for k in keys)
RECURSIVE SumOver(_, _)
SumOver(counts, keys) ==
    IF keys = {} THEN 0
    ELSE LET k == CHOOSE x \in keys : TRUE
         IN  counts[k] + SumOver(counts, keys \ {k})

\* "for g in color_groups: if c in g["colors"]: mapped = g["name"]; break"
\* of get_neighbor_divergence_merged: the first group that lists a color
\* names it
ColorToGroupFirst(color_groups) ==
    LET Lists(g, c) == c \in Range(color_groups[g].colors)
        listed == UNION { Range(color_groups[g].colors) : g \in DOMAIN color_groups }
    IN  [c \in listed |->
            color_groups[CHOOSE g \in DOMAIN color_groups :
                           /\ Lists(g, c)
                           /\ \A h \in DOMAIN color_groups : Lists(h, c) => g <= h].name]

\* color_to_group[color] = group["name"] for every group in turn and every
\* color of it: the last group that lists a color keeps it
ColorToGroup(color_groups) ==
    LET Lists(g, c) == c \in Range(color_groups[g].colors)
        listed == UNION { Range(color_groups[g].colors) : g \in DOMAIN color_groups }
    IN  [c \in listed |->
            color_groups[CHOOSE g \in DOMAIN color_groups :
                           /\ Lists(g, c)
                           /\ \A h \in DOMAIN color_groups : Lists(h, c) => h <= g].name]

\* color_to_group.get(color, color)
MergedKey(color_to_group, color) ==
    IF color \in DOMAIN color_to_group THEN color_to_group[color] ELSE color

\* merged[key] = count: the count of one color of the key, not their sum
ApplyColorMappingOverwrite(color_counts, color_groups) ==
    LET color_to_group == ColorToGroup(color_groups)
        keys == { MergedKey(color_to_group, c) : c \in DOMAIN color_counts }
    IN  [k \in keys |->
            color_counts[CHOOSE c \in DOMAIN color_counts :
                           MergedKey(color_to_group, c) = k]]

\* merged[key] = merged.get(key, 0) + count for every color of color_counts
apply_color_mapping(color_counts, color_groups) ==
    LET color_to_group == ColorToGroup(color_groups)
        keys == { MergedKey(color_to_group, c) : c \in DOMAIN color_counts }
    IN  [k \in keys |->
            SumOver(color_counts,
                    { c \in DOMAIN color_counts : MergedKey(color_to_group, c) = k })]

----------------------------------------------------------------------------
(* apply_color_mapping on its own, applied to a count table and a list of *)
(* merge groups                                                           *)

\* the colors of the count tables
MergeColors == {"Blue", "Green", "Red"}

\* the names of the groups: one of them is also a color
GroupNames == {"Red", "Warm"}

\* the color lists of the groups
GroupColorLists == { <<>>, <<"Blue">>, <<"Blue", "Green">>, <<"Green", "Red">> }

\* the lists of at most n merge groups
RECURSIVE ColorGroupLists(_)
ColorGroupLists(n) ==
    IF n = 0 THEN { <<>> }
    ELSE ColorGroupLists(n - 1)
         \cup { Append(gs, [name |-> nm, colors |-> cs]) :
                  gs \in { x \in ColorGroupLists(n - 1) : Len(x) = n - 1 },
                  nm \in GroupNames, cs \in GroupColorLists }

\* the count tables: a color is a key when it has been counted
ColorCountTables ==
    UNION { [S -> 1..MaxMergeCount] : S \in SUBSET MergeColors }

InitMapping ==
    /\ df = <<>>
    /\ neighbors_df = <<>>
    /\ morans_i_df = NoneFrame
    /\ ca_counties_geojson = AtImport
    /\ request = NoRequest
    /\ response = NoResponse
    /\ \E color_counts \in ColorCountTables, color_groups \in ColorGroupLists(MaxGroups) :
         work = [stage |-> "called", color_counts |-> color_counts,
                 color_groups |-> color_groups, merged |-> <<>>]

ApplyColorMapping ==
    /\ work.stage = "called"
    /\ work' = [work EXCEPT
                  !.stage = "returned",
                  !.merged = apply_color_mapping(work.color_counts, work.color_groups)]
    /\ UNCHANGED <<df, neighbors_df, morans_i_df, ca_counties_geojson, request, response>>

NextMapping == ApplyColorMapping

SpecMapping == InitMapping /\ [][NextMapping]_vars

----------------------------------------------------------------------------
(* Divergence Engine: get_neighbor_divergence_merged (routes.py)          *)

\* all_colors = sorted(merged_colors): every color of the dataset under the
\* name of the first group that lists it, or under its own
MergedColors(d, color_groups) ==
    LET all_colors_raw == UniqueSorted(d, "clr")
        first == ColorToGroupFirst(color_groups)
    IN  SortedValues({ MergedKey(first, all_colors_raw[i]) :
                         i \in DOMAIN all_colors_raw })

\* merged_counts of get_merged_color_distribution
MergedCounts(counts, fips_val, lc_type_val, color_groups) ==
    apply_color_mapping(ColorCounts(counts, fips_val, lc_type_val), color_groups)

\* the smoothed vector of get_merged_color_distribution, before it is
\* normalized
MergedColorVector(merged_counts, colors) ==
    [i \in DOMAIN colors |-> DictGet(merged_counts, colors[i]) + LAPLACE_PSEUDOCOUNT]

\* one pass of "for lc in all_lc_types" of get_neighbor_divergence_merged
MergedStratum(d, counts, color_groups, fips_a, fips_b, lc) ==
    LET support_a == Support(counts, fips_a, lc)
        support_b == Support(counts, fips_b, lc)
        colors == MergedColors(d, color_groups)
        merged_a == MergedCounts(counts, fips_a, lc, color_groups)
        merged_b == MergedCounts(counts, fips_b, lc, color_groups)
        vec_a == MergedColorVector(merged_a, colors)
        vec_b == MergedColorVector(merged_b, colors)
    IN  IF support_a < MIN_SUPPORT \/ support_b < MIN_SUPPORT THEN <<>>
        ELSE << [lc |-> lc, support_a |-> support_a, support_b |-> support_b,
                 colors |-> colors, merged_a |-> merged_a, merged_b |-> merged_b,
                 vec_a |-> vec_a, vec_b |-> vec_b,
                 jsd |-> jensenshannon(Normalised(vec_a), Normalised(vec_b)),
                 support |-> IF support_a < support_b THEN support_a
                             ELSE support_b] >>

\* one pass of "for fips_a, fips_b in adjacency_list"
MergedPairResult(d, counts, color_groups, fips_a, fips_b) ==
    LET all_lc_types == UniqueSorted(d, "lc_type")
        strata == Flatten([i \in DOMAIN all_lc_types |->
                              MergedStratum(d, counts, color_groups, fips_a, fips_b,
                                            all_lc_types[i])])
        pair_jsds == [i \in DOMAIN strata |-> strata[i].jsd]
        pair_supports == [i \in DOMAIN strata |-> strata[i].support]
        total_support == ISum(pair_supports)
    IN  IF strata = <<>> THEN <<>>
        ELSE << [fips_a |-> fips_a, fips_b |-> fips_b, strata |-> strata,
                 weighted_jsd |->
                    WeightedSum(pair_jsds,
                                [i \in DOMAIN strata |->
                                    Rat(pair_supports[i], total_support)]),
                 mean_jsd |->
                    WeightedSum(pair_jsds,
                                [i \in DOMAIN strata |-> Rat(1, Len(strata))]),
                 n_shared_lc |-> Len(strata),
                 total_support |-> total_support] >>

\* results of get_neighbor_divergence_merged
MergedDivergenceResults(d, neighbors, color_groups) ==
    LET pairs == adjacency_list(neighbors)
        counts == county_lc_clr_counts(d)
    IN  Flatten([i \in DOMAIN pairs |->
                    MergedPairResult(d, counts, color_groups, pairs[i][1], pairs[i][2])])

----------------------------------------------------------------------------
(* get_neighbor_divergence_merged on its own                              *)

\* the rows of the two counties: one land cover varies, the other is
\* absent or holds MIN_SUPPORT rows of one color
MergedProfiles ==
    { p \in [DOMAIN DivStrata -> { <<0, 0>>, <<MIN_SUPPORT, 0>>,
                                   <<MIN_SUPPORT - 1, 1>>, <<0, MIN_SUPPORT>> }] :
        \A k \in DOMAIN DivStrata :
            DivStrata[k][2] = "Grass" => p[k] \in { <<0, 0>>, <<MIN_SUPPORT, 0>> } }

\* the merge groups of a request: groups that list Blue, alone or with Green
MergedRequestGroups ==
    { gs \in ColorGroupLists(MaxGroups) :
        \A g \in DOMAIN gs : gs[g].colors \in { <<"Blue">>, <<"Blue", "Green">> } }

InitMerged ==
    /\ \E profile \in MergedProfiles, other \in 0..MaxOtherRows :
         df = DivDataset(profile, other)
    /\ neighbors_df \in NeighborTables
    /\ morans_i_df = NoneFrame
    /\ ca_counties_geojson = AtImport
    /\ request = NoRequest
    /\ response = NoResponse
    /\ work = [stage |-> "none", color_groups |-> <<>>, results |-> <<>>]

GetNeighborDivergenceMerged ==
    /\ work.stage = "none"
    /\ df # <<>>
    /\ \E color_groups \in MergedRequestGroups :
       \E results \in { MergedDivergenceResults(df, neighbors_df, color_groups) } :
         /\ work' = [stage |-> "returned", color_groups |-> color_groups,
                     results |-> results]
         /\ response' = [NoResponse EXCEPT !.status = 200, !.kind = "ok",
                                           !.total_rows = Len(results)]
    /\ UNCHANGED <<df, neighbors_df, morans_i_df, ca_counties_geojson, request>>

NextMerged == GetNeighborDivergenceMerged

SpecMerged == InitMerged /\ [][NextMerged]_vars

----------------------------------------------------------------------------
(* Comparison Engine: get_feature_distribution,                           *)
(* get_merged_feature_distribution (utils.py), compare_counties           *)
(* (routes.py)                                                            *)

\* {row[col_name]: row["count"]} over d.group_by(col_name).len()
ValueCounts(d, col_name) ==
    [v \in { d[i][col_name] : i \in DOMAIN d } |->
        Cardinality({ i \in DOMAIN d : d[i][col_name] = v })]

\* sorted(..) raises TypeError when it compares None with a string
SortRaises(S) == NULL \in S /\ S # {NULL}

\* sorted(entries, key=totals, reverse=True) of the entries of values: the
\* sort is stable, values of the same total stay in the order of values
RECURSIVE SortedByTotalsDesc(_, _)
SortedByTotalsDesc(values, totals) ==
    IF values = <<>> THEN <<>>
    ELSE LET i == CHOOSE k \in DOMAIN values :
                    /\ \A j \in DOMAIN values : totals[values[j]] <= totals[values[k]]
                    /\ \A j \in DOMAIN values :
                          totals[values[j]] = totals[values[k]] => k <= j
         IN  <<values[i]>>
             \o SortedByTotalsDesc(SubSeq(values, 1, i - 1)
                                   \o SubSeq(values, i + 1, Len(values)), totals)

\* the order of the entries of both distribution lists
DistributionOrder(dist_a, dist_b) ==
    LET all_values == SortedValues(DOMAIN dist_a \cup DOMAIN dist_b)
        totals == [v \in Range(all_values) |-> DictGet(dist_a, v) + DictGet(dist_b, v)]
    IN  SortedByTotalsDesc(all_values, totals)

\* count / total if total > 0 else 0
Proportion(count, total) == IF total > 0 THEN Rat(count, total) ELSE RZero

\* distribution_a of get_feature_distribution for (dist_a, dist_b),
\* distribution_b for (dist_b, dist_a)
DistributionList(dist, other, total) ==
    LET order == DistributionOrder(dist, other)
    IN  [i \in DOMAIN order |->
            [value |-> order[i],
             count |-> DictGet(dist, order[i]),
             proportion |-> Proportion(DictGet(dist, order[i]), total),
             unique |-> order[i] \in DOMAIN dist \ DOMAIN other]]

get_feature_distribution(df_a, df_b, col_name, total_a, total_b) ==
    LET dist_a == ValueCounts(df_a, col_name)
        dist_b == ValueCounts(df_b, col_name)
    IN  IF SortRaises(DOMAIN dist_a \cup DOMAIN dist_b)
        THEN [raised |-> TRUE, distribution_a |-> <<>>, distribution_b |-> <<>>,
              vocab_a |-> 0, vocab_b |-> 0]
        ELSE [raised |-> FALSE,
              distribution_a |-> DistributionList(dist_a, dist_b, total_a),
              distribution_b |-> DistributionList(dist_b, dist_a, total_b),
              vocab_a |-> Cardinality(DOMAIN dist_a),
              vocab_b |-> Cardinality(DOMAIN dist_b)]

\* the entries of get_merged_feature_distribution carry "is_group"
MergedDistributionList(dist, other, total, group_names) ==
    LET entries == DistributionList(dist, other, total)
    IN  [i \in DOMAIN entries |->
            [value |-> entries[i].value, count |-> entries[i].count,
             proportion |-> entries[i].proportion, unique |-> entries[i].unique,
             is_group |-> entries[i].value \in group_names]]

get_merged_feature_distribution(df_a, df_b, col_name, total_a, total_b, color_groups) ==
    LET merged_a == apply_color_mapping(ValueCounts(df_a, col_name), color_groups)
        merged_b == apply_color_mapping(ValueCounts(df_b, col_name), color_groups)
        group_names == { color_groups[g].name : g \in DOMAIN color_groups }
    IN  IF SortRaises(DOMAIN merged_a \cup DOMAIN merged_b)
        THEN [raised |-> TRUE, distribution_a |-> <<>>, distribution_b |-> <<>>,
              vocab_a |-> 0, vocab_b |-> 0]
        ELSE [raised |-> FALSE,
              distribution_a |-> MergedDistributionList(merged_a, merged_b, total_a,
                                                        group_names),
              distribution_b |-> MergedDistributionList(merged_b, merged_a, total_b,
                                                        group_names),
              vocab_a |-> Cardinality(DOMAIN merged_a),
              vocab_b |-> Cardinality(DOMAIN merged_b)]

\* FIPS_TO_COUNTY_NAME.get(fips, fips)
CountyName(fips) ==
    IF fips \in DOMAIN FIPS_TO_COUNTY_NAME THEN FIPS_TO_COUNTY_NAME[fips] ELSE fips

\* "if cond.column and cond.value" for every condition of the request
AppliedConditions(conditions) ==
    LET Applies(cond) == cond.column # "" /\ cond.value # ""
    IN  SelectSeq(conditions, Applies)

\* d.filter(pl.col(cond.column) == cond.value) for every condition applied;
\* a null never equals a value
ConditionFrame(d, applied) ==
    LET Passes(r) == \A k \in DOMAIN applied :
                        /\ ~IsNull(applied[k].column, r[applied[k].column])
                        /\ r[applied[k].column] = applied[k].value
    IN  SelectSeq(d, Passes)

\* an exception that leaves compare_counties
CompareRaised(kind) == [status |-> 500, kind |-> kind]

\* the body compare_counties returns when both populations hold rows
CompareResult(req, df_a, df_b, applied) ==
    LET total_a == Len(df_a)
        total_b == Len(df_b)
        clr == get_feature_distribution(df_a, df_b, "clr", total_a, total_b)
        bldg == get_feature_distribution(df_a, df_b, "bldgtype", total_a, total_b)
        occ == get_feature_distribution(df_a, df_b, "st_damcat", total_a, total_b)
        merged == get_merged_feature_distribution(df_a, df_b, "clr", total_a, total_b,
                                                  req.color_groups)
        original_jsd == compute_jsd_from_distributions(clr.distribution_a,
                                                       clr.distribution_b)
    IN  IF clr.raised \/ bldg.raised \/ occ.raised THEN CompareRaised("TypeError")
        ELSE IF Len(req.color_groups) > 0 /\ merged.raised
        THEN CompareRaised("TypeError")
        ELSE [status |-> 200, kind |-> "ok",
              county_a |-> [fips |-> req.fips_a, name |-> CountyName(req.fips_a),
                            total_count |-> total_a,
                            clr |-> clr.distribution_a,
                            clr_vocab |-> clr.vocab_a,
                            bldgtype |-> bldg.distribution_a,
                            st_damcat |-> occ.distribution_a],
              county_b |-> [fips |-> req.fips_b, name |-> CountyName(req.fips_b),
                            total_count |-> total_b,
                            clr |-> clr.distribution_b,
                            clr_vocab |-> clr.vocab_b,
                            bldgtype |-> bldg.distribution_b,
                            st_damcat |-> occ.distribution_b],
              conditions |-> applied,
              jsd_original |-> original_jsd,
              merged |-> IF Len(req.color_groups) > 0
                         THEN << [clr_a |-> merged.distribution_a,
                                  clr_b |-> merged.distribution_b,
                                  jsd |-> compute_jsd_from_distributions(
                                             merged.distribution_a,
                                             merged.distribution_b)] >>
                         ELSE <<>>]

compare_counties(req) ==
    LET parsed_a == ParseFips(req.fips_a)
        parsed_b == ParseFips(req.fips_b)
        applied == AppliedConditions(req.conditions)
        Known(cond) == cond.column \in DOMAIN Head(df)
        df_a == ConditionFrame(CountyFrame(df, parsed_a.v), applied)
        df_b == ConditionFrame(CountyFrame(df, parsed_b.v), applied)
    IN  IF ~parsed_a.ok \/ ~parsed_b.ok THEN CompareRaised("ValueError")
        ELSE IF \E k \in DOMAIN applied : ~Known(applied[k])
        THEN CompareRaised("ColumnNotFoundError")
        ELSE IF Len(df_a) = 0 \/ Len(df_b) = 0
        THEN [status |-> 200, kind |-> "NoData",
              count_a |-> Len(df_a), count_b |-> Len(df_b)]
        ELSE CompareResult(req, df_a, df_b, applied)

----------------------------------------------------------------------------
(* compare_counties on its own: the dataset is loaded, then one request   *)
(* is served                                                              *)

\* the county identifiers of a request: with and without leading zeros, of
\* a county without rows, and of zeros only
CompareFipsA == { <<0, 6, 0, 0, 1>>, <<6, 0, 0, 3>>, <<6, 0, 9, 9>>, <<0, 0>> }

CompareFipsB == { <<6, 0, 0, 3>>, <<0, 6, 0, 0, 1>>, <<0>> }

\* the shared conditions of a request: none, one that is applied, one
\* whose value is empty and that is skipped, one on a column df lacks
CompareConditions ==
    { <<>>,
      << [column |-> "lc_type", value |-> "Forest"] >>,
      << [column |-> "lc_type", value |-> ""] >>,
      << [column |-> "zone", value |-> "A"] >> }

\* the merge groups of a request: none or one group
CompareGroups == { <<>>, << [name |-> "Warm", colors |-> <<"Blue", "Red">>] >> }

InitCompare ==
    /\ df \in Datasets
    /\ neighbors_df = CountyNeighbors
    /\ morans_i_df = NoneFrame
    /\ ca_counties_geojson = AtImport
    /\ request = NoRequest
    /\ response = NoResponse
    /\ work = NoWork

CompareCounties ==
    /\ response = NoResponse
    /\ \E a \in CompareFipsA, b \in CompareFipsB, conditions \in CompareConditions,
          color_groups \in CompareGroups :
         \E req \in { [endpoint |-> "compare_counties", fips_a |-> a, fips_b |-> b,
                       conditions |-> conditions, color_groups |-> color_groups] } :
             /\ request' = req
             /\ response' = compare_counties(req)
    /\ UNCHANGED <<df, neighbors_df, morans_i_df, ca_counties_geojson, work>>

NextCompare == CompareCounties

SpecCompare == InitCompare /\ [][NextCompare]_vars

----------------------------------------------------------------------------
(* Properties *)

Responded == response.status # 0

\* the context columns a handler groups by: the county handlers add fips
UsedContextCols(req) ==
    IF req.endpoint \in {"county_map", "county_detail"}
    THEN WithFips(req.context_cols)
    ELSE req.context_cols

AllColumnsRegistered(req) ==
    \A c \in Range(req.context_cols) \cup {req.target} : c \in DOMAIN COLUMN_META

\* C1 as claimed: every row of the scored table of every scoring
\* computation has 0 < prob < 1 strictly, also when the target column takes
\* a single value in the whole dataset.
C1_ProbStrictlyInsideUnit ==
    \A r \in work.prob_table : RLess(RZero, r.prob) /\ RLess(r.prob, ROne)

\* C1 amended: in every scoring computation alpha > 0 and every scored row
\* has 1 <= count <= context_total, 0 < p_global <= 1 and 0 < prob <= 1,
\* with prob = 1 exactly when p_global = 1 (the target column takes a
\* single value in the whole dataset); prob < 1 otherwise.
C1_ProbInUnitClosedAtOne ==
    work.stage = "scored" =>
        /\ RLess(RZero, work.alpha)
        /\ \A r \in work.prob_table :
              /\ 1 <= r.count /\ r.count <= r.context_total
              /\ RLess(RZero, r.p_global) /\ RLeq(r.p_global, ROne)
              /\ RLess(RZero, r.prob) /\ RLeq(r.prob, ROne)
              /\ (r.prob = ROne) <=> (r.p_global = ROne)

\* a scored row with prob = 1 next to scored rows of a computation whose
\* target takes two values
C1_Witness ==
    /\ work.stage = "scored"
    /\ \E r \in work.prob_table : r.prob = ROne /\ r.context_total >= 2

\* C2: each of the four scoring handlers rejects the whole request with an
\* error, with no count table, alpha or partial result computed, whenever a
\* requested context column or the target is not a key of COLUMN_META.
C2_UnregisteredColumnRejected ==
    (Responded /\ ~AllColumnsRegistered(request)) =>
        /\ response.status # 200
        /\ \/ response.kind = "InvalidColumn"
           \/ request.endpoint = "county_detail" /\ response.kind = "ValueError"
        /\ work = NoWork
        /\ response.alpha = RNone
        /\ response.total_rows = 0
        /\ response.data = <<>>
        /\ response.distributions = {}

\* the hex map rejects a request whose target is the unregistered column h3
C2_Witness ==
    /\ request.endpoint = "hex_map"
    /\ request.target = "h3"
    /\ AllColumnsRegistered([request EXCEPT !.target = "clr"])
    /\ response.status = 400
    /\ response.kind = "InvalidColumn"

\* C3: every handler that runs the Count Aggregator rejects the request
\* with InvalidRequest, computing nothing, when the target is one of the
\* context columns used for grouping (fips included for the county
\* handlers).
C3_TargetInContextRejected ==
    (/\ Responded
     /\ AllColumnsRegistered(request)
     /\ request.target \in Range(UsedContextCols(request))
     /\ response.kind \notin {"ValueError", "NoData"}) =>
        /\ response.kind = "InvalidRequest"
        /\ work = NoWork

\* C4: every handler that runs the Count Aggregator rejects the request
\* with InvalidRequest, computing nothing, when the list of context columns
\* used for grouping is empty.
C4_EmptyContextRejected ==
    (/\ Responded
     /\ AllColumnsRegistered(request)
     /\ UsedContextCols(request) = <<>>) =>
        /\ response.kind = "InvalidRequest"
        /\ work = NoWork

CountRowsOf(ctx) == SetToSeq({ c \in work.counts : c.ctx = ctx })

\* C5: in every scoring computation, the context_total of every context key
\* equals the sum over the target values of the count rows of that key, and
\* every count is an integer >= 1.
C5_ContextTotalIsSumOfCounts ==
    work.stage = "scored" =>
        /\ \A t \in work.context_totals :
              LET rows == CountRowsOf(t.ctx)
              IN  t.context_total = ISum([i \in DOMAIN rows |-> rows[i].count])
        /\ \A c \in work.counts :
              /\ c.count >= 1
              /\ \E t \in work.context_totals : t.ctx = c.ctx

\* a context of three rows or more spread over two target values, two of
\* its rows being equal
C5_Witness ==
    /\ work.stage = "scored"
    /\ \E t \in work.context_totals :
          /\ t.context_total >= 3
          /\ Len(CountRowsOf(t.ctx)) = 2

\* C6: for every scored row, reliable is true exactly when
\* context_total >= min_support: a total equal to min_support is reliable,
\* a total of min_support - 1 is not.
C6_ReliableIffSupported ==
    /\ \A r \in work.prob_table :
          r.reliable <=> (r.context_total >= request.min_support)
    /\ \A i \in DOMAIN response.data :
          response.data[i].reliable <=>
              (response.data[i].context_total >= request.min_support)
    /\ \A r \in response.distributions : r.context_total >= request.min_support

\* one scored table with a row at the boundary and a row just below it
C6_Witness ==
    \E r1 \in work.prob_table : \E r2 \in work.prob_table :
        /\ r1.context_total = request.min_support /\ r1.reliable
        /\ r2.context_total = request.min_support - 1 /\ ~r2.reliable

----------------------------------------------------------------------------
(* Properties of the alpha estimator, for SpecAlpha *)

EbVarianceTable ==
    VarianceTable(work.counts, work.context_totals, work.global_prior,
                  EbContextCols, EbTarget)

\* alpha_k as the claim writes it
ClaimedAlphaK(st) ==
    LET pq == RMul(st.p_global, RSub(ROne, st.p_global))
        binomial_var == RDiv(pq, st.mean_n)
    IN  RSub(RDiv(pq, RSub(st.var_obs, binomial_var)), ROne)

\* the target value yields no alpha_k: var_obs undefined (one context) or
\* zero, or no excess over the binomial variance, or alpha_k <= 0
YieldsNoAlpha(st) ==
    \/ st.n_ctx <= 1
    \/ st.var_obs = RZero
    \/ RLeq(st.var_obs, RDiv(RMul(st.p_global, RSub(ROne, st.p_global)), st.mean_n))
    \/ RLeq(ClaimedAlphaK(st), RZero)

\* C7: estimate_alpha_eb returns exactly 100 whenever no target value
\* yields a retained alpha_k (every var_obs undefined or zero, or not above
\* binomial_var, or alpha_k <= 0), an empty count table included.
C7_FallbackIsHundred ==
    (work.stage = "alpha" /\ \A st \in EbVarianceTable : YieldsNoAlpha(st)) =>
        work.alpha = <<100, 1>>

\* a target observed in two contexts or more with a positive variance that
\* does not exceed the binomial variance, and the fallback returned
C7_Witness ==
    /\ work.stage = "alpha"
    /\ work.alpha = <<100, 1>>
    /\ \E st \in EbVarianceTable :
          st.n_ctx >= 2 /\ st.var_obs # RZero /\ YieldsNoAlpha(st)

\* the retained alpha_k, one per target value that yields one
EbRetained ==
    LET kept == SetToSeq({ st \in EbVarianceTable : ~YieldsNoAlpha(st) })
    IN  [i \in DOMAIN kept |-> ClaimedAlphaK(kept[i])]

----------------------------------------------------------------------------

\* C9: the alpha, and the prob of each (context, target) row of the county,
\* reported by get_county_surprisal_detail equal those get_county_map
\* computes for the same request over the whole dataset.
C9_DetailAgreesWithCountyMap ==
    (request.endpoint = "county_detail" /\ response.status = 200) =>
        LET m == get_county_map(request)
        IN  /\ m.status = 200
            /\ response.alpha = m.work.alpha
            /\ \A r \in response.distributions :
                  \E q \in m.work.prob_table :
                      q.ctx = r.ctx /\ q.tgt = r.tgt /\ q.prob = r.prob

\* C10: the scored table returned by analyze_conditional_probability has
\* exactly one row for each distinct (context key, target value)
\* combination occurring in the dataset, nulls included, and total_rows is
\* the number of such combinations.
C10_EveryCombinationScored ==
    (request.endpoint = "analyze" /\ response.status = 200) =>
        LET cols == request.context_cols \o <<request.target>>
            combos == { Key(df[i], cols) : i \in DOMAIN df }
        IN  /\ response.total_rows = Cardinality(combos)
            /\ \A k \in combos :
                  Cardinality({ j \in DOMAIN response.data :
                        response.data[j].ctx \o <<response.data[j].tgt>> = k }) = 1

\* C11: the rows returned by analyze_conditional_probability are in
\* descending surprisal order (ascending prob), and any two rows of equal
\* surprisal appear in ascending order of target value.
C11_SurprisalOrderWithTargetTieBreak ==
    (request.endpoint = "analyze" /\ response.status = 200) =>
        \A i \in DOMAIN response.data : \A j \in DOMAIN response.data :
            i < j =>
                /\ RLeq(response.data[i].prob, response.data[j].prob)
                /\ response.data[i].prob = response.data[j].prob =>
                      ValueLeq(request.target, response.data[i].tgt,
                               response.data[j].tgt)

\* the coarser levels aggregated so far
CoarserDone == { r \in DOMAIN work.by_resolution : r < 9 }

\* the leaves of hex_list, by position, that lie under parent p at level r
LeavesUnder(r, p) ==
    { i \in DOMAIN work.hex_list : cell_to_parent(work.hex_list[i].h3, r) = p }

ScoredUnder(r, p) ==
    { i \in LeavesUnder(r, p) : work.hex_list[i].max_surprisal # RNone }

\* the sum of the counts of the leaves at the positions S
CountOver(S) ==
    LET idx == SetToSeq(S)
    IN  ISum([k \in DOMAIN idx |-> work.hex_list[idx[k]].count])

\* the sum of the scores of the leaves at the positions S
ScoreOver(S) ==
    LET idx == SetToSeq(S)
    IN  RSum([k \in DOMAIN idx |-> work.hex_list[idx[k]].max_surprisal])

C12_CountsRollUp ==
    /\ \A r \in CoarserDone :
         LET agg == work.by_resolution[r]
         IN  /\ \A i \in DOMAIN work.hex_list :
                  Cardinality({ g \in DOMAIN agg :
                      agg[g].h3 = cell_to_parent(work.hex_list[i].h3, r) }) = 1
             /\ \A g \in DOMAIN agg :
                  agg[g].count = CountOver(LeavesUnder(r, agg[g].h3))
             /\ ISum([g \in DOMAIN agg |-> agg[g].count])
                  = CountOver(DOMAIN work.hex_list)
             /\ agg = aggregate_hexes_to_resolution(work.hex_list, r)
    /\ 9 \in DOMAIN work.by_resolution => work.by_resolution[9] = work.hex_list

\* C12: at every coarser level of H3_LEVELS produced by get_hex_map each
\* leaf cell lies in exactly one parent group, a parent's count is the sum
\* of the counts of its leaves, the counts of all parents add up to the
\* total leaf count, every level is aggregated from the leaf list itself,
\* and no level's aggregation changes the leaf list or its records.
C12_RollupFromUnchangedLeaves ==
    []C12_CountsRollUp /\ [][work'.hex_list = work.hex_list]_vars

C12_Witness ==
    /\ 8 \in CoarserDone /\ 7 \in CoarserDone
    /\ Len(work.by_resolution[8]) = 2
    /\ \E g \in DOMAIN work.by_resolution[8] :
         /\ Cardinality(LeavesUnder(8, work.by_resolution[8][g].h3)) = 2
         /\ work.by_resolution[8][g].count = 3
    /\ work.by_resolution[7][1].count = 4

\* C13: a parent's max_surprisal is the greatest max_surprisal of its
\* children that have a score; a parent whose children all have a null
\* score gets a null max_surprisal and a null mean_surprisal, and the
\* aggregation of its level completes.
C13_MaxOverScoredChildren ==
    \A r \in CoarserDone : \A g \in DOMAIN work.by_resolution[r] :
        LET rec == work.by_resolution[r][g]
            scored == ScoredUnder(r, rec.h3)
        IN  IF scored = {}
            THEN rec.max_surprisal = RNone /\ rec.mean_surprisal = RNone
            ELSE /\ \E i \in scored : work.hex_list[i].max_surprisal = rec.max_surprisal
                 /\ \A i \in scored :
                       RLeq(work.hex_list[i].max_surprisal, rec.max_surprisal)

C13_Witness ==
    /\ 8 \in CoarserDone /\ 7 \in CoarserDone
    /\ \E g \in DOMAIN work.by_resolution[8] :
         /\ Cardinality(LeavesUnder(8, work.by_resolution[8][g].h3)) = 2
         /\ ScoredUnder(8, work.by_resolution[8][g].h3) = {}
         /\ work.by_resolution[8][g].max_surprisal = RNone
    /\ work.by_resolution[7][1].max_surprisal = RInt(2)

ValuesOver(S, field) == { work.hex_list[i][field] : i \in S } \ {NULL}

\* the total count of the leaves at the positions S that carry val
WeightOver(S, field, val) ==
    CountOver({ i \in S : work.hex_list[i][field] = val })

\* C15: for each of lc_type and fips the parent's value is a value whose
\* total child count is at least that of every other value occurring among
\* the children; it is null only when no child carries a value.
C15_DominantIsCountWeightedMode ==
    \A r \in CoarserDone : \A g \in DOMAIN work.by_resolution[r] :
        \A field \in {"lc_type", "fips"} :
            LET rec == work.by_resolution[r][g]
                kids == LeavesUnder(r, rec.h3)
                vals == ValuesOver(kids, field)
            IN  IF vals = {} THEN rec[field] = NULL
                ELSE /\ rec[field] \in vals
                     /\ \A v \in vals :
                           WeightOver(kids, field, v)
                             <= WeightOver(kids, field, rec[field])

C15_Witness ==
    /\ 8 \in CoarserDone
    /\ \E g \in DOMAIN work.by_resolution[8] :
         LET rec == work.by_resolution[8][g]
             kids == LeavesUnder(8, rec.h3)
         IN  /\ rec.lc_type = "Grass" /\ rec.fips = "06003"
             /\ WeightOver(kids, "lc_type", "Grass") = 2
             /\ WeightOver(kids, "lc_type", "Forest") = 1
             /\ work.hex_list[1].lc_type = "Forest"
             /\ 1 \in kids
    /\ \E g \in DOMAIN work.by_resolution[8] :
         work.by_resolution[8][g].lc_type = NULL

PayloadFields == {"anomaly_value", "anomaly_prob", "anomaly_context", "expected"}

\* C16: the parent's anomaly_value, anomaly_prob, anomaly_context and
\* expected are all copied from one single child whose max_surprisal is the
\* parent's max_surprisal, no child having a higher one; a parent without a
\* scored child carries none of the four.
C16_PayloadCopiedFromTopChild ==
    \A r \in CoarserDone : \A g \in DOMAIN work.by_resolution[r] :
        LET rec == work.by_resolution[r][g]
            scored == ScoredUnder(r, rec.h3)
        IN  IF scored = {}
            THEN \A f \in PayloadFields : rec[f] = ABSENT
            ELSE \E i \in scored :
                   /\ \A f \in PayloadFields : rec[f] = work.hex_list[i][f]
                   /\ work.hex_list[i].max_surprisal = rec.max_surprisal
                   /\ \A j \in scored :
                         RLeq(work.hex_list[j].max_surprisal,
                              work.hex_list[i].max_surprisal)

C16_Witness ==
    /\ 8 \in CoarserDone
    /\ \E g \in DOMAIN work.by_resolution[8] :
         LET rec == work.by_resolution[8][g]
         IN  /\ Cardinality(ScoredUnder(8, rec.h3)) = 2
             /\ work.hex_list[1].max_surprisal = RInt(1)
             /\ 1 \in ScoredUnder(8, rec.h3)
             /\ rec.max_surprisal = RInt(2)
             /\ rec.anomaly_value # work.hex_list[1].anomaly_value
    /\ \E g \in DOMAIN work.by_resolution[8] :
         work.by_resolution[8][g].anomaly_value = ABSENT

\* the lists holding the elements of s in another order
PermutationsOf(s) ==
    { [i \in DOMAIN s |-> s[f[i]]] :
        f \in { h \in [DOMAIN s -> DOMAIN s] :
                  \A i \in DOMAIN s : \A j \in DOMAIN s : h[i] = h[j] => i = j } }

\* C17: the set of parent records produced by
\* aggregate_hexes_to_resolution, dominant lc_type and fips and top-anomaly
\* payload included, is the same for every order of the leaf cells in the
\* input list.
C17_ParentsIndependentOfLeafOrder ==
    \A r \in CoarserDone :
        \A other \in PermutationsOf(work.hex_list) :
            Range(aggregate_hexes_to_resolution(other, r))
              = Range(work.by_resolution[r])

\* the count a distribution list gives for a value, 0 for a value it lacks
ListedCount(dist, v) ==
    IF \E i \in DOMAIN dist : dist[i].value = v
    THEN (CHOOSE d \in Range(dist) : d.value = v).count
    ELSE 0

\* the total count of a distribution list
ListedTotal(dist) == ISum([i \in DOMAIN dist |-> dist[i].count])

\* C18: both smoothed vectors of compute_jsd_from_distributions are indexed
\* by the same sorted union of the category values of the two inputs, each
\* entry is the observed count of its category in that population plus 1
\* (so at least 1, also for a category the population lacks), and each
\* vector sums to the population's total count plus the size of the union.
C18_SmoothedOverSortedUnion ==
    work.stage = "returned" =>
        LET U == ValueSet(work.dist_a) \cup ValueSet(work.dist_b)
        IN  /\ Range(work.all_values) = U
            /\ Len(work.all_values) = Cardinality(U)
            /\ \A i \in DOMAIN work.all_values : \A j \in DOMAIN work.all_values :
                  i < j => StrRank(work.all_values[i]) < StrRank(work.all_values[j])
            /\ DOMAIN work.vec_a = DOMAIN work.all_values
            /\ DOMAIN work.vec_b = DOMAIN work.all_values
            /\ \A i \in DOMAIN work.all_values :
                  /\ work.vec_a[i] = ListedCount(work.dist_a, work.all_values[i]) + 1
                  /\ work.vec_b[i] = ListedCount(work.dist_b, work.all_values[i]) + 1
                  /\ work.vec_a[i] >= 1 /\ work.vec_b[i] >= 1
            /\ ISum(work.vec_a) = ListedTotal(work.dist_a) + Cardinality(U)
            /\ ISum(work.vec_b) = ListedTotal(work.dist_b) + Cardinality(U)

\* the example A:{X:5}, B:{Y:5}
C18_Witness ==
    /\ work.stage = "returned"
    /\ work.dist_a = <<[value |-> "Blue", count |-> 5]>>
    /\ work.dist_b = <<[value |-> "Red", count |-> 5]>>
    /\ work.vec_a = <<6, 1>>
    /\ work.vec_b = <<1, 6>>

\* C20: compute_jsd_from_distributions(A, B) = compute_jsd_from_distributions(B, A)
\* for all populations A and B, the two smoothed vectors being swapped over
\* the same category order, and the divergence is 0 when A and B have the
\* same counts, the two smoothed, normalized vectors then being the same.
C20_SymmetricAndZeroOnIdentical ==
    work.stage = "returned" =>
        LET swapped == JsdVectors(work.dist_b, work.dist_a)
            U == ValueSet(work.dist_a) \cup ValueSet(work.dist_b)
        IN  /\ swapped.all_values = work.all_values
            /\ swapped.vec_a = work.vec_b
            /\ swapped.vec_b = work.vec_a
            /\ compute_jsd_from_distributions(work.dist_b, work.dist_a) = work.jsd
            /\ (\A v \in U : ListedCount(work.dist_a, v) = ListedCount(work.dist_b, v))
                 => /\ Normalised(work.vec_a) = Normalised(work.vec_b)
                    /\ work.jsd = JsdZero

\* populations of different sizes over different values, one value shared
C20_Witness ==
    /\ work.stage = "returned"
    /\ work.dist_a = <<[value |-> "Blue", count |-> 2], [value |-> "Red", count |-> 1]>>
    /\ work.dist_b = <<[value |-> "Green", count |-> 1], [value |-> "Red", count |-> 3]>>
    /\ work.jsd # JsdZero
    /\ work.jsd = compute_jsd_from_distributions(work.dist_b, work.dist_a)

\* the colors observed among the rows of a county in a land cover
ObservedColors(fips_val, lc_type_val) ==
    { df[i].clr : i \in { j \in DOMAIN df :
                            df[j].fips = fips_val /\ df[j].lc_type = lc_type_val } }

\* C19: in get_neighbor_divergence_map, for every county pair and every
\* qualifying land-cover stratum, the categories over which the two color
\* distributions are smoothed and normalized are exactly the colors
\* observed in either of the two county-stratum populations compared.
C19_CategoriesAreUnionOfPair ==
    work.stage = "returned" =>
        \A i \in DOMAIN work.results : \A k \in DOMAIN work.results[i].strata :
            LET res == work.results[i]
                st == res.strata[k]
            IN  Range(st.colors)
                  = ObservedColors(res.fips_a, st.lc) \cup ObservedColors(res.fips_b, st.lc)

\* a mean of divergences, every one of them above ln 2
MeanAboveLn2(mean) == mean # {} /\ \A term \in mean : AboveLn2(term[1])

\* C21: every divergence reported lies in [0, ln 2]: in
\* get_neighbor_divergence_map no stratum's value, no weighted_jsd and no
\* mean_jsd is above ln 2 or below 0.
C21_DivergenceWithinLn2 ==
    work.stage = "returned" =>
        \A i \in DOMAIN work.results :
            LET res == work.results[i]
            IN  /\ \A k \in DOMAIN res.strata :
                     /\ ~AboveLn2(res.strata[k].jsd)
                     /\ ~BelowZero(res.strata[k].jsd)
                /\ ~MeanAboveLn2(res.weighted_jsd)
                /\ ~MeanAboveLn2(res.mean_jsd)

\* the rows of df of a county in a land cover
RowsOf(fips_val, lc_type_val) ==
    Cardinality({ i \in DOMAIN df :
                    df[i].fips = fips_val /\ df[i].lc_type = lc_type_val })

MinOf(a, b) == IF a < b THEN a ELSE b

\* the land covers in which both counties have MIN_SUPPORT rows or more
QualifyingStrata(a, b) ==
    { lc \in { df[i].lc_type : i \in DOMAIN df } :
        RowsOf(a, lc) >= MIN_SUPPORT /\ RowsOf(b, lc) >= MIN_SUPPORT }

\* sum over the land covers S of min(support_a, support_b)
RECURSIVE MinSupportOver(_, _, _)
MinSupportOver(a, b, S) ==
    IF S = {} THEN 0
    ELSE LET lc == CHOOSE x \in S : TRUE
         IN  MinOf(RowsOf(a, lc), RowsOf(b, lc)) + MinSupportOver(a, b, S \ {lc})

\* the entries of results for the pair (a, b)
ResultsOf(a, b) ==
    { i \in DOMAIN work.results :
        work.results[i].fips_a = a /\ work.results[i].fips_b = b }

\* C22: in get_neighbor_divergence_map a land-cover stratum contributes to
\* a county pair exactly when both supports are >= 30; n_shared_lc counts
\* the contributing strata, total_support sums min(support_a, support_b)
\* over them, weighted_jsd weights every stratum's divergence by that
\* minimum over total_support, mean_jsd weights them equally; a pair with
\* no contributing stratum has no entry.
C22_StrataGateAndWeights ==
    work.stage = "returned" =>
        \A n \in DOMAIN neighbors_df :
            LET a == neighbors_df[n].county_fips
                b == neighbors_df[n].neighbor_fips
                Q == QualifyingStrata(a, b)
            IN  a < b =>
                  /\ (Q = {}) = (ResultsOf(a, b) = {})
                  /\ \A i \in ResultsOf(a, b) :
                       LET res == work.results[i]
                           With(v) == { k \in DOMAIN res.strata : res.strata[k].jsd = v }
                           Weight(v) == MinSupportOver(a, b, { res.strata[k].lc : k \in With(v) })
                       IN  /\ { res.strata[k].lc : k \in DOMAIN res.strata } = Q
                           /\ Len(res.strata) = Cardinality(Q)
                           /\ res.n_shared_lc = Cardinality(Q)
                           /\ res.total_support = MinSupportOver(a, b, Q)
                           /\ res.total_support > 0
                           /\ res.weighted_jsd
                                = { <<res.strata[k].jsd,
                                      Rat(Weight(res.strata[k].jsd), res.total_support)>> :
                                    k \in DOMAIN res.strata }
                           /\ res.mean_jsd
                                = { <<res.strata[k].jsd,
                                      Rat(Cardinality(With(res.strata[k].jsd)),
                                          Cardinality(Q))>> :
                                    k \in DOMAIN res.strata }

\* a pair with two contributing strata of different weights, one of them
\* with a support of exactly MIN_SUPPORT, whose weighted and unweighted
\* means differ
C22_Witness ==
    /\ work.stage = "returned"
    /\ \E i \in DOMAIN work.results :
         LET res == work.results[i]
         IN  /\ res.n_shared_lc = 2
             /\ res.total_support = 2 * MIN_SUPPORT + 1
             /\ \E k \in DOMAIN res.strata : res.strata[k].support_a = MIN_SUPPORT
             /\ res.weighted_jsd # res.mean_jsd

\* the colors a list of merge groups lists
ListedColors(color_groups) ==
    UNION { Range(color_groups[g].colors) : g \in DOMAIN color_groups }

\* the keys under which the count of a color may be found after merging:
\* its own when no group lists it, else the names of the groups listing it
KeysFor(color_groups, c) ==
    IF c \in ListedColors(color_groups)
    THEN { color_groups[g].name :
             g \in { h \in DOMAIN color_groups : c \in Range(color_groups[h].colors) } }
    ELSE { c }

\* C24: apply_color_mapping conserves observations: a label in no group
\* keeps its own key, a label in a group has its count added to the name of
\* a group that lists it, every key comes from a label, no key holds more
\* than the labels that can reach it, and the output counts sum to the
\* input counts.
C24_MappingConservesCounts ==
    work.stage = "returned" =>
        LET counts == work.color_counts
            groups == work.color_groups
            merged == work.merged
        IN  /\ SumOver(merged, DOMAIN merged) = SumOver(counts, DOMAIN counts)
            /\ \A c \in DOMAIN counts :
                 \E k \in KeysFor(groups, c) :
                    k \in DOMAIN merged /\ merged[k] >= counts[c]
            /\ \A k \in DOMAIN merged :
                 LET from == { c \in DOMAIN counts : k \in KeysFor(groups, c) }
                 IN  from # {} /\ merged[k] <= SumOver(counts, from)

\* two groups share a color, a group is named after a color that is counted
\* and that no group lists, and the counts of two colors are added under
\* that name
C24_Witness ==
    /\ work.stage = "returned"
    /\ \E g, h \in DOMAIN work.color_groups :
         g < h /\ Range(work.color_groups[g].colors)
                    \cap Range(work.color_groups[h].colors) # {}
    /\ "Red" \in DOMAIN work.color_counts
    /\ "Red" \notin ListedColors(work.color_groups)
    /\ "Blue" \in DOMAIN work.color_counts
    /\ "Red" \in DOMAIN work.merged
    /\ work.merged["Red"] = work.color_counts["Red"] + work.color_counts["Blue"]

\* C26: in get_neighbor_divergence_merged every merged category that holds
\* observations of a county-stratum is in the smoothing vocabulary, and
\* each smoothed vector sums to the county-stratum's support plus the size
\* of the vocabulary.
C26_MergedCountsInVocabulary ==
    work.stage = "returned" =>
        \A i \in DOMAIN work.results : \A k \in DOMAIN work.results[i].strata :
            LET st == work.results[i].strata[k]
            IN  /\ DOMAIN st.merged_a \subseteq Range(st.colors)
                /\ DOMAIN st.merged_b \subseteq Range(st.colors)
                /\ ISum(st.vec_a) = st.support_a + Len(st.colors)
                /\ ISum(st.vec_b) = st.support_b + Len(st.colors)

\* C28: in get_neighbor_divergence_map every adjacency recorded in the
\* adjacency list, in either order and in any number of rows, is evaluated
\* exactly once: a pair with a qualifying stratum has one entry in results,
\* under fips_a < fips_b, and no entry has fips_a >= fips_b.
C28_EachAdjacencyEvaluatedOnce ==
    work.stage = "returned" =>
        /\ \A i \in DOMAIN work.results :
              work.results[i].fips_a < work.results[i].fips_b
        /\ \A n \in DOMAIN neighbors_df :
              LET a == MinOf(neighbors_df[n].county_fips, neighbors_df[n].neighbor_fips)
                  b == IF neighbors_df[n].county_fips = a
                       THEN neighbors_df[n].neighbor_fips
                       ELSE neighbors_df[n].county_fips
              IN  Cardinality(ResultsOf(a, b))
                    = IF QualifyingStrata(a, b) = {} THEN 0 ELSE 1

\* the rows of df of the county a digit string names that meet every
\* condition of the request that names a column and a value
PopulationOf(fips, conditions) ==
    Cardinality({ i \in DOMAIN df :
        /\ df[i].fips = DigitsToInt(fips)
        /\ \A k \in DOMAIN conditions :
              (conditions[k].column # "" /\ conditions[k].value # "")
                 => df[i][conditions[k].column] = conditions[k].value })

\* C23: compare_counties returns the explicit NoData result with both
\* population sizes, and raises nothing, whenever the population of county
\* A or of county B is empty after the shared conditions, for every pair of
\* digit strings, one that matches no row and one of zeros only included.
C23_EmptyPopulationIsNoData ==
    (/\ response # NoResponse
     /\ \A k \in DOMAIN request.conditions :
           request.conditions[k].column \in DOMAIN Head(df)
     /\ \/ PopulationOf(request.fips_a, request.conditions) = 0
        \/ PopulationOf(request.fips_b, request.conditions) = 0)
    => /\ response.kind = "NoData"
       /\ response.count_a = PopulationOf(request.fips_a, request.conditions)
       /\ response.count_b = PopulationOf(request.fips_b, request.conditions)

----------------------------------------------------------------------------
(* C27: once startup has stored the fetched county geometry under         *)
(* data.ca_counties_geojson, get_morans_i_map, called after startup has   *)
(* completed, does not answer "County geometries not loaded".             *)

C27_MoransMapSeesLoadedGeometry ==
    (/\ ~ca_counties_geojson.data.is_none
     /\ request.endpoint = "morans_i_map"
     /\ Responded)
    => response.kind # "County geometries not loaded"

----------------------------------------------------------------------------
(* C25: after startup no request handler writes to the base dataset, the  *)
(* adjacency table or the county geometry, whatever requests were served  *)
(* before, so the response to a request is a response the same request    *)
(* gets from a server that has served nothing since startup.              *)

----------------------------------------------------------------------------
(* C29: the reliability gate holds in every spatial summary.  In the      *)
(* answers of get_county_map, get_county_surprisal_detail and get_hex_map *)
(* the maximum and mean surprisal, the row count, the top anomaly and the *)
(* expected values are those of the scored rows whose context_total is at *)
(* least min_support; a county of the map without such a row gets null    *)
(* surprisal and total_rows 0, and a cell without one is no leaf cell.    *)

\* the scored rows that pass the gate of the request
Supported == { r \in work.prob_table : r.context_total >= request.min_support }

\* the statistics summary has are those of rows, which is not empty
SummaryOf(summary, rows) ==
    /\ rows # {}
    /\ \E r \in rows : summary.max_surprisal = r.prob
    /\ \A r \in rows : RLeq(summary.max_surprisal, r.prob)
    /\ Len(summary.mean_surprisal) = Cardinality(rows)
    /\ Range(summary.mean_surprisal) = { r.prob : r \in rows }

GateInCountyMap ==
    \A i \in DOMAIN response.features :
       LET props == response.features[i].properties
           rows == { r \in Supported :
                       FipsStr(ContextValue(r, work.context_cols, "fips")) = props.fips }
       IN  IF rows = {}
           THEN /\ props.max_surprisal = RNone
                /\ props.mean_surprisal = NoMean
                /\ props.total_rows = 0
                /\ "top_anomaly_value" \notin DOMAIN props
           ELSE /\ SummaryOf(props, rows)
                /\ props.total_rows = TotalRows(rows)
                /\ \E r \in rows : /\ props.top_anomaly_value = r.tgt
                                   /\ props.top_anomaly_surprisal = r.prob
                                   /\ r.prob = props.max_surprisal

GateInCountyDetail ==
    \A i \in DOMAIN response.by_landcover :
       LET entry == response.by_landcover[i]
           rows == IF entry.lc_type = "all" THEN Supported
                   ELSE { r \in Supported :
                            ContextValue(r, work.context_cols, "lc_type") = entry.lc_type }
       IN  /\ entry.distributions = rows
           /\ IF rows = {} THEN entry.total_rows = 0
              ELSE /\ SummaryOf(entry, rows)
                   /\ \E r \in rows : entry.total_rows >= r.context_total

\* the scored rows that meet a row of the dataset lying in the cell
RowsOfCell(cell) ==
    LET on == work.context_cols \o <<request.target>>
    IN  { r \in Supported :
            \E j \in DOMAIN df : /\ df[j].h3 = cell
                                 /\ JoinMatch(Key(df[j], on), r.ctx \o <<r.tgt>>, on) }

GateInHexMap ==
    /\ \A rec \in response.hex_list :
          LET rows == RowsOfCell(rec.h3)
          IN  /\ SummaryOf(rec, rows)
              /\ \E r \in rows :
                   /\ rec.anomaly_value = r.tgt
                   /\ rec.anomaly_prob = r.prob
                   /\ r.prob = rec.max_surprisal
                   /\ \A k \in DOMAIN rec.expected :
                        \E x \in Supported :
                           /\ x.ctx = r.ctx
                           /\ rec.expected[k] = <<x.tgt, Percent(x.prob)>>
    /\ \A j \in DOMAIN df :
          RowsOfCell(df[j].h3) = {}
             => \A rec \in response.hex_list : rec.h3 # df[j].h3

====
